---------------------------- MODULE Spec2Model ----------------------------
(***************************************************************************)
(* A model of the T&C Group event-photo application (fotografiasapp):      *)
(* the category helpers, the event form, the login / password-reset /      *)
(* add-user submissions, the report generator, the photo uploader, two     *)
(* sessions saving one event, the mail sender, the wait for the docx       *)
(* library, createEvent, the auth-state callback of the dashboard, the     *)
(* photo manager opened, left and deleting while calls are awaited, and    *)
(* the event list of the dashboard.                                        *)
(*                                                                         *)
(* Strings are sequences of one-character strings, so that trim, toLower-  *)
(* Case, length and the e-mail pattern are computed character by           *)
(* character.  Every handler is one action per synchronous stretch of its  *)
(* code: an `await` ends an action, and the continuation is another one.   *)
(***************************************************************************)
EXTENDS Integers, Sequences, FiniteSets, TLC

VARIABLES
    call,       \* pure-function harness: the call being evaluated
    ret,        \* pure-function harness: its result ("pending" before)
    toast,      \* the message shown last by showMessage: [text, type]
    io,         \* the external calls (auth, Firestore, localStorage writes,
                \* Storage, fetch) issued by the last step, in order
    fsEvents,   \* Firestore collection 'eventos': document id -> document
    lsEvents,   \* localStorage 'userEvents': a list of event records
    formState,  \* events.js formState: mode, currentEventId, categorias
    colorIndex, \* categories.js colorIndex
    nextId,     \* the number of ids generateId has handed out
    saveBtnDisabled, \* saveEventBtn.disabled
    formPending, \* the event save awaiting its Firestore write
    saves,      \* the number of event saves started (bounds the run)
    authUsers,  \* the emails of the accounts of the auth provider
    userDocs,   \* the documents of the usuarios collection: [email, nombre]
    currentUser,\* auth.currentUser: an email, or NoUser
    authPending,\* the auth or usuarios request awaiting its answer
    addUserBtnDisabled, \* addUserBtn.disabled
    isGenerating, \* reportManagerState.isGenerating
    reportRuns, \* the generateReport calls suspended at an await, oldest first
    photoManagerState, \* photo-manager.js: [currentEvent, currentCategoryId, photos, isUploading]
    uploadRuns, \* the processAndAddPhoto calls suspended at an await, oldest first
    storageFiles, \* the paths of the files of the storage bucket
    pmfResult,  \* what processMultipleFiles returned last, with what it was given
    sessions,   \* per browser session: the photo manager and the edit form it holds
    writeLog,   \* the updateDoc calls Firestore has applied, oldest first
    mailDocs,   \* Firestore collection 'mail': the documents, oldest first
    windowDocx, \* whether window.docx is defined
    docxWait,   \* the waitForDocx call: where it is, and Date.now() - t0
    isInitialized,  \* app.js isInitialized
    appCurrentUser, \* app.js appState.currentUser
    initRuns,   \* the number of times initializeApp has run on this page
    location,   \* the page shown: app.html, or index.html after the redirect
    managerCalls,   \* the photo manager's open, back and delete calls suspended at an await
    reported,   \* the photo ids the photo manager has reported uploaded, and deleted
    appEvents,  \* app.js appState.events
    eventCards, \* the event ids of the cards of eventsContainer, in order
    emptyStateHidden, \* whether #emptyState carries the class 'hidden'
    homeCalls   \* the loadEvents and deleteEventById calls suspended at an await

pureVars == <<call, ret>>
sharedVars == <<toast, io>>
storeVars == <<fsEvents, lsEvents>>
formVars == <<formState, colorIndex, saveBtnDisabled, formPending, saves>>
authVars == <<authUsers, userDocs, currentUser, authPending, addUserBtnDisabled>>
reportVars == <<isGenerating, reportRuns>>
uploadVars == <<photoManagerState, uploadRuns, storageFiles, pmfResult, reported>>
sessionVars == <<sessions, writeLog>>
docxVars == <<windowDocx, docxWait>>
appVars == <<isInitialized, appCurrentUser, initRuns, location>>
homeVars == <<appEvents, eventCards, emptyStateHidden, homeCalls>>
lastVars == <<managerCalls, homeVars>>
laterVars == <<sessionVars, mailDocs, docxVars, appVars, lastVars>>
vars == <<call, ret, toast, io, fsEvents, lsEvents, formState, colorIndex,
          nextId, saveBtnDisabled, formPending, saves, authUsers, userDocs,
          currentUser, authPending, addUserBtnDisabled, isGenerating, reportRuns,
          photoManagerState, uploadRuns, storageFiles, pmfResult,
          sessions, writeLog, mailDocs, windowDocx, docxWait,
          isInitialized, appCurrentUser, initRuns, location,
          managerCalls, reported, appEvents, eventCards, emptyStateHidden,
          homeCalls>>

\* what the steps of one part of the program leave alone
otherThanValidate == <<storeVars, formVars, nextId, authVars, reportVars, uploadVars, laterVars>>
otherThanForm == <<pureVars, authVars, reportVars, uploadVars, laterVars>>
otherThanAuth == <<pureVars, storeVars, formVars, nextId, reportVars, uploadVars, laterVars>>
otherThanReport == <<pureVars, storeVars, formVars, nextId, authVars, uploadVars, laterVars>>
otherThanUpload == <<pureVars, formVars, authVars, reportVars, laterVars>>

Null == "null"

(***************************************************************************)
(* Strings                                                                 *)
(***************************************************************************)

\* n copies of the character c
Rep(c, n) == [i \in 1..n |-> c]

IsWhitespace(c) == c = " "

RECURSIVE TrimStart(_)
TrimStart(s) ==
    IF s # <<>> /\ IsWhitespace(Head(s)) THEN TrimStart(Tail(s)) ELSE s

RECURSIVE TrimEnd(_)
TrimEnd(s) ==
    IF s # <<>> /\ IsWhitespace(s[Len(s)])
    THEN TrimEnd(SubSeq(s, 1, Len(s) - 1))
    ELSE s

\* String.prototype.trim
trim(s) == TrimEnd(TrimStart(s))

LowerChar(c) ==
    CASE c = "A" -> "a"
      [] c = "B" -> "b"
      [] OTHER   -> c

\* String.prototype.toLowerCase
toLowerCase(s) == [i \in 1..Len(s) |-> LowerChar(s[i])]

(***************************************************************************)
(* categories.js: validateCategoryName, in the two versions the repository *)
(* holds.  The first is the module with the catalog (the one events.js     *)
(* imports: it is the only one exporting createCategoryFromCatalog).       *)
(***************************************************************************)

MaxCategoryNameLen == 50
MaxCategoryNameLenV2 == 30

MsgNameEmpty == "El nombre de la categoria no puede estar vacio"
MsgNameShort == "El nombre debe tener al menos 2 caracteres"
MsgNameLong == "El nombre no puede exceder 50 caracteres"
MsgNameLongV2 == "El nombre no puede exceder 30 caracteres"
MsgNameDuplicate == "Ya existe una categoria con este nombre"

\* existingCategories.some(cat => cat.nombre.toLowerCase() === nombre.trim().toLowerCase())
isDuplicate(nombre, existingCategories) ==
    \E i \in 1..Len(existingCategories) :
        toLowerCase(existingCategories[i].nombre) = toLowerCase(trim(nombre))

\* mutant: the comparison forgets toLowerCase
validateCategoryName_CaseSensitive(nombre, existingCategories) ==
    IF nombre = <<>> \/ trim(nombre) = <<>>
    THEN [valid |-> FALSE, error |-> MsgNameEmpty]
    ELSE IF Len(trim(nombre)) < 2
    THEN [valid |-> FALSE, error |-> MsgNameShort]
    ELSE IF Len(trim(nombre)) > MaxCategoryNameLen
    THEN [valid |-> FALSE, error |-> MsgNameLong]
    ELSE IF \E i \in 1..Len(existingCategories) :
                existingCategories[i].nombre = trim(nombre)
    THEN [valid |-> FALSE, error |-> MsgNameDuplicate]
    ELSE [valid |-> TRUE, error |-> Null]

\* mutant: the upper limit is off by one (>= instead of >)
validateCategoryName_OffByOne(nombre, existingCategories) ==
    IF nombre = <<>> \/ trim(nombre) = <<>>
    THEN [valid |-> FALSE, error |-> MsgNameEmpty]
    ELSE IF Len(trim(nombre)) < 2
    THEN [valid |-> FALSE, error |-> MsgNameShort]
    ELSE IF Len(trim(nombre)) >= MaxCategoryNameLen
    THEN [valid |-> FALSE, error |-> MsgNameLong]
    ELSE IF isDuplicate(nombre, existingCategories)
    THEN [valid |-> FALSE, error |-> MsgNameDuplicate]
    ELSE [valid |-> TRUE, error |-> Null]

\* first definition (limit 50)
validateCategoryName(nombre, existingCategories) ==
    IF nombre = <<>> \/ trim(nombre) = <<>>
    THEN [valid |-> FALSE, error |-> MsgNameEmpty]
    ELSE IF Len(trim(nombre)) < 2
    THEN [valid |-> FALSE, error |-> MsgNameShort]
    ELSE IF Len(trim(nombre)) > MaxCategoryNameLen
    THEN [valid |-> FALSE, error |-> MsgNameLong]
    ELSE IF isDuplicate(nombre, existingCategories)
    THEN [valid |-> FALSE, error |-> MsgNameDuplicate]
    ELSE [valid |-> TRUE, error |-> Null]

\* second definition (limit 30)
validateCategoryNameV2(nombre, existingCategories) ==
    IF nombre = <<>> \/ trim(nombre) = <<>>
    THEN [valid |-> FALSE, error |-> MsgNameEmpty]
    ELSE IF Len(trim(nombre)) < 2
    THEN [valid |-> FALSE, error |-> MsgNameShort]
    ELSE IF Len(trim(nombre)) > MaxCategoryNameLenV2
    THEN [valid |-> FALSE, error |-> MsgNameLongV2]
    ELSE IF isDuplicate(nombre, existingCategories)
    THEN [valid |-> FALSE, error |-> MsgNameDuplicate]
    ELSE [valid |-> TRUE, error |-> Null]

(***************************************************************************)
(* Inputs of the pure-function checks                                      *)
(***************************************************************************)

\* bounds of the enumerated names: padding on each side, and how far past
\* the larger limit a name may reach
MaxPad == 1
MaxOver == 1

NameChars == {"a", "A", "b"}
NameLengths ==
    {0, 1, 2, 3,
     MaxCategoryNameLenV2 - 1, MaxCategoryNameLenV2, MaxCategoryNameLenV2 + 1}
    \cup (MaxCategoryNameLen - 1)..(MaxCategoryNameLen + MaxOver)

\* a name: left padding, a first character, a run of one character, right padding
NameInputs ==
    { Rep(" ", l) \o (IF n = 0 THEN <<>> ELSE <<c1>> \o Rep(c2, n - 1)) \o Rep(" ", r) :
        l \in 0..MaxPad, r \in 0..MaxPad, c1 \in NameChars, c2 \in {"a", "b"},
        n \in NameLengths }

Cat(nombre) == [nombre |-> nombre]

\* lists of existing categories (their names are stored trimmed by createCategory)
ExistingInputs ==
    { <<>>,
      <<Cat(Rep("a", 2))>>,
      <<Cat(Rep("b", 3)), Cat(<<"A">> \o Rep("a", MaxCategoryNameLenV2 - 1))>>,
      <<Cat(Rep("a", MaxCategoryNameLen))>> }

NoCall == [fn |-> "none"]
Pending == [done |-> FALSE]
Returned(v) == [done |-> TRUE, value |-> v]
NoToast == [text |-> "", type |-> "none"]

PureIdle == call = NoCall /\ ret = Pending
SharedIdle == toast = NoToast /\ io = <<>>

\* the empty document store
NoDocs == [d \in {} |-> Null]
StoreIdle == fsEvents = NoDocs /\ lsEvents = <<>>

NoPending == [kind |-> "none"]
\* event ids: a Firestore document id, a 'local-<timestamp>' id, or null
DocId(n) == <<"doc", n>>
LocalId(n) == <<"local", n>>
NullId == <<"null", 0>>

EmptyForm == [mode |-> "create", currentEventId |-> NullId, categorias |-> <<>>]
FormIdle ==
    /\ formState = EmptyForm
    /\ colorIndex = 0
    /\ nextId = 0
    /\ saveBtnDisabled = FALSE
    /\ formPending = NoPending
    /\ saves = 0

\* the auth forms before any submission, over an empty provider
NoUser == <<>>
NoRequest == [kind |-> "none"]
AuthIdle ==
    /\ authUsers = {}
    /\ userDocs = {}
    /\ currentUser = NoUser
    /\ authPending = NoRequest
    /\ addUserBtnDisabled = FALSE

\* the report manager before any click
ReportIdle == isGenerating = FALSE /\ reportRuns = <<>>

\* the photo manager before it is opened (photo-manager.js 282-287)
NoResult == [returned |-> FALSE]
\* the photo manager has shown no success message yet
NothingReported == [uploaded |-> {}, deleted |-> {}]
ClosedPhotoManager ==
    [currentEvent |-> NullId, currentCategoryId |-> 0, photos |-> <<>>, isUploading |-> FALSE]
UploadIdle ==
    /\ photoManagerState = ClosedPhotoManager
    /\ uploadRuns = <<>>
    /\ storageFiles = {}
    /\ pmfResult = NoResult
    /\ reported = NothingReported

\* a session that has opened nothing: its photo manager (photo-manager.js
\* 282-287), its event form (events.js 15-20) and no save in flight
ClosedSession ==
    [ open |-> FALSE, photos |-> <<>>, editing |-> FALSE, categorias |-> <<>>,
      pending |-> NoPending, n |-> 0 ]
SessionsIdle == sessions = <<>> /\ writeLog = <<>>

\* the mail collection is empty
MailIdle == mailDocs = <<>>

\* waitForDocx has not been called
DocxIdle == windowDocx = FALSE /\ docxWait = [pc |-> "idle", elapsed |-> 0]

\* app.html before DOMContentLoaded (app.js 15-39)
AppIdle ==
    /\ isInitialized = FALSE
    /\ appCurrentUser = NoUser
    /\ initRuns = 0
    /\ location = "app.html"

\* the photo manager has no open, back or delete call in flight
ManagerIdle == managerCalls = <<>>

\* the dashboard before its first loadEvents: appState.events is [] (app.js
\* 22-26) and the container has no card; whether the page shows the empty
\* state at the start is chosen by the Init of the dashboard
HomeIdle ==
    /\ appEvents = <<>>
    /\ eventCards = <<>>
    /\ emptyStateHidden = TRUE
    /\ homeCalls = <<>>

LastIdle == ManagerIdle /\ HomeIdle

LaterIdle == SessionsIdle /\ MailIdle /\ DocxIdle /\ AppIdle /\ LastIdle

(***************************************************************************)
(* SpecValidate: validateCategoryName applied to enumerated inputs         *)
(***************************************************************************)

ValidateInit ==
    /\ call \in [fn : {"validateCategoryName", "validateCategoryNameV2"},
                 nombre : NameInputs, existing : ExistingInputs]
    /\ ret = Pending
    /\ SharedIdle
    /\ StoreIdle
    /\ FormIdle
    /\ AuthIdle
    /\ ReportIdle
    /\ UploadIdle
    /\ LaterIdle

ValidateCall ==
    /\ ret = Pending
    /\ call.fn = "validateCategoryName"
    /\ ret' = Returned(validateCategoryName(call.nombre, call.existing))
    /\ UNCHANGED <<call, sharedVars, otherThanValidate>>

ValidateCallV2 ==
    /\ ret = Pending
    /\ call.fn = "validateCategoryNameV2"
    /\ ret' = Returned(validateCategoryNameV2(call.nombre, call.existing))
    /\ UNCHANGED <<call, sharedVars, otherThanValidate>>

ValidateNext == ValidateCall \/ ValidateCallV2

SpecValidate == ValidateInit /\ [][ValidateNext]_vars

\* the limit of the definition a call names
LimitOf(fn) ==
    IF fn = "validateCategoryName" THEN MaxCategoryNameLen ELSE MaxCategoryNameLenV2

\* a case-insensitive duplicate of a name in existing, stated on its own
DuplicateIn(t, existing) ==
    \E c \in {existing[i] : i \in 1..Len(existing)} :
        toLowerCase(c.nombre) = toLowerCase(t)

\* C4 as stated: either definition rejects a trimmed name that is empty,
\* shorter than 2 or longer than 50 characters, and accepts every trimmed
\* name of 2 to 50 characters that is no case-insensitive duplicate.
C4_AsStated ==
    ret.done =>
        LET t == trim(call.nombre) IN
        /\ (Len(t) < 2 \/ Len(t) > 50) => ~ret.value.valid
        /\ (Len(t) \in 2..50 /\ ~DuplicateIn(t, call.existing)) => ret.value.valid

\* C4 amended: the same with the limit of the definition called: 50 for the
\* first definition, 30 for the second.
C4_ValidateCategoryName ==
    ret.done =>
        LET t == trim(call.nombre)
            limit == LimitOf(call.fn) IN
        /\ (Len(t) < 2 \/ Len(t) > limit) => ~ret.value.valid
        /\ (Len(t) \in 2..limit /\ ~DuplicateIn(t, call.existing)) => ret.value.valid

\* C4 witness: the first definition accepted a padded name whose trimmed
\* length is exactly the limit
C4_Witness ==
    /\ ret.done
    /\ call.fn = "validateCategoryName"
    /\ call.nombre # trim(call.nombre)
    /\ Len(trim(call.nombre)) = MaxCategoryNameLen
    /\ call.existing # <<>>
    /\ ret.value.valid

(***************************************************************************)
(* categories.js (first definition): the catalog, the palette and the      *)
(* constructors                                                            *)
(***************************************************************************)

\* The catalog entries whose names are written in the model's alphabet
\* ('A&B' and 'A/V' of the twelve).
CATALOG_CATEGORIES ==
    << [nombre |-> <<"A", "&", "B">>, color |-> "#f59e0b"],
       [nombre |-> <<"A", "/", "V">>, color |-> "#ef4444"] >>

ADDITIONAL_COLORS ==
    << "#0ea5e9", "#22c55e", "#eab308", "#f43f5e",
       "#a78bfa", "#fb923c", "#2dd4bf", "#818cf8" >>

\* mutant: the index stays where it is
colorIndexAfterNext_Stuck == colorIndex

\* getNextColor: the color handed out, and the index it leaves
getNextColor == ADDITIONAL_COLORS[colorIndex + 1]
colorIndexAfterNext == (colorIndex + 1) % Len(ADDITIONAL_COLORS)

\* createCategory(nombre, color): the category object; color = Null asks for
\* the next palette color.  The caller has checked that nombre is not blank.
createCategory(nombre, color) ==
    [ id       |-> nextId + 1,
      nombre   |-> trim(nombre),
      color    |-> IF color = Null THEN getNextColor ELSE color,
      isCustom |-> color = Null ]

\* the undefined of a find that matched nothing
NotFound == [found |-> FALSE]

\* CATALOG_CATEGORIES.find(cat => cat.nombre === nombre)
catalogFind(nombre) ==
    LET hits == {i \in 1..Len(CATALOG_CATEGORIES) : CATALOG_CATEGORIES[i].nombre = nombre}
    IN  IF hits = {} THEN NotFound
        ELSE CATALOG_CATEGORIES[CHOOSE i \in hits : \A j \in hits : i <= j]

\* mutant: the filter drops the categories up to and including the id
removeCategoryFromEvent_Prefix(categories, categoryId) ==
    SelectSeq(categories, LAMBDA cat : cat.id > categoryId)

\* removeCategoryFromEvent: categories.filter(cat => cat.id !== categoryId)
removeCategoryFromEvent(categories, categoryId) ==
    SelectSeq(categories, LAMBDA cat : cat.id # categoryId)

(***************************************************************************)
(* storage.js: the event documents and their localStorage copies           *)
(***************************************************************************)

\* the null event
NullEvent == [id |-> NullId]

\* getEventFromLocalStorage: eventos.find(e => e.id === eventId) || null
getEventFromLocalStorage(eventId) ==
    LET hits == {i \in 1..Len(lsEvents) : lsEvents[i].id = eventId}
    IN  IF hits = {} THEN NullEvent ELSE lsEvents[CHOOSE i \in hits : \A j \in hits : i <= j]

\* getEventById: the Firestore document, null when there is none; the
\* localStorage copy when the read fails
getEventById(eventId, readOk) ==
    IF readOk
    THEN IF eventId \in DOMAIN fsEvents
         THEN [id |-> eventId] @@ fsEvents[eventId]
         ELSE NullEvent
    ELSE getEventFromLocalStorage(eventId)

\* updateEventInLocalStorage: the list with the first event of that id merged
\* with the updates (unchanged when there is none)
updateEventInLocalStorage(eventId, updates) ==
    LET hits == {i \in 1..Len(lsEvents) : lsEvents[i].id = eventId}
    IN  IF hits = {} THEN lsEvents
        ELSE LET k == CHOOSE i \in hits : \A j \in hits : i <= j
             IN  [lsEvents EXCEPT ![k] = updates @@ lsEvents[k]]

(***************************************************************************)
(* events.js: the event form                                               *)
(***************************************************************************)

\* bounds: the category ids generated and the event saves started
MaxIds == 1
MaxSaves == 1

Toast(text, type) == [text |-> text, type |-> type]

\* what is typed into the category input
FormNameInputs ==
    { <<" ">>, <<"a">>, <<"a", "b">>, <<" ", "A", "B", " ">> }

\* a push onto formState.categorias reaches the array a pending save holds,
\* as long as formState.categorias is still that array
pushPending(cat) ==
    IF formPending.kind # "none" /\ formPending.alias
    THEN [formPending EXCEPT !.cats = Append(@, cat)]
    ELSE formPending

\* an assignment to formState.categorias ends the aliasing
unaliasPending ==
    IF formPending.kind # "none"
    THEN [formPending EXCEPT !.alias = FALSE]
    ELSE formPending

\* handleAddCustomCategory (events.js 239-273)
handleAddCustomCategory(raw) ==
    LET nombre == trim(raw) IN
    /\ io' = <<>>
    /\ IF nombre = <<>>
       THEN /\ toast' = Toast("Ingresa un nombre para la categoria", "error")
            /\ UNCHANGED <<formState, colorIndex, nextId, formPending>>
       ELSE LET validation == validateCategoryName(nombre, formState.categorias) IN
            IF ~validation.valid
            THEN /\ toast' = Toast(validation.error, "error")
                 /\ UNCHANGED <<formState, colorIndex, nextId, formPending>>
            ELSE /\ nextId < MaxIds
                 /\ LET newCategory == createCategory(nombre, Null) IN
                    /\ formState' = [formState EXCEPT !.categorias = Append(@, newCategory)]
                    /\ formPending' = pushPending(newCategory)
                 /\ colorIndex' = colorIndexAfterNext
                 /\ nextId' = nextId + 1
                 /\ toast' = Toast("Categoria agregada", "success")
    /\ UNCHANGED <<otherThanForm, storeVars, saveBtnDisabled, saves>>

\* window.addCatalogCategory (events.js 187-202)
addCatalogCategory(categoryName) ==
    LET catalogItem == catalogFind(categoryName) IN
    /\ io' = <<>>
    /\ IF catalogItem = NotFound
       THEN /\ toast' = Toast("Categoria no encontrada en el catalogo", "error")
            /\ UNCHANGED <<formState, nextId, formPending>>
       ELSE /\ nextId < MaxIds
            /\ LET newCategory == createCategory(catalogItem.nombre, catalogItem.color) IN
               /\ formState' = [formState EXCEPT !.categorias = Append(@, newCategory)]
               /\ formPending' = pushPending(newCategory)
            /\ nextId' = nextId + 1
            /\ toast' = Toast("Categoria agregada", "success")
    /\ UNCHANGED <<otherThanForm, storeVars, colorIndex, saveBtnDisabled, saves>>

\* window.removeCategory (events.js 279-284)
removeCategory(categoryId) ==
    /\ io' = <<>>
    /\ formState' = [formState EXCEPT
                        !.categorias = removeCategoryFromEvent(@, categoryId)]
    /\ formPending' = unaliasPending
    /\ UNCHANGED <<otherThanForm, storeVars, toast, colorIndex, nextId, saveBtnDisabled, saves>>

\* resetForm (events.js 485-524): the fields it assigns
resetFormState ==
    /\ formState' = EmptyForm
    /\ saveBtnDisabled' = FALSE
    /\ colorIndex' = 0

\* the fields of the event a submission sends
eventData(nombreEvento, responsableId) ==
    [ nombre        |-> nombreEvento,
      responsableId |-> responsableId,
      categorias    |-> formState.categorias ]

\* handleFormSubmit up to its await (events.js 310-356, storage.js createEvent
\* 97-111 and updateEvent 194-202).  At most one save is in flight.
handleFormSubmit(nameInput, responsableId, confirmed) ==
    LET nombreEvento == trim(nameInput) IN
    /\ ~saveBtnDisabled
    /\ formPending.kind = "none"
    /\ IF nombreEvento = <<>>
       THEN /\ toast' = Toast("El nombre del evento es requerido", "error")
            /\ io' = <<>>
            /\ UNCHANGED <<saveBtnDisabled, formPending, saves>>
       ELSE IF responsableId = ""
       THEN /\ toast' = Toast("Debes seleccionar un responsable", "error")
            /\ io' = <<>>
            /\ UNCHANGED <<saveBtnDisabled, formPending, saves>>
       ELSE IF formState.categorias = <<>> /\ ~confirmed
       THEN /\ io' = <<>>
            /\ UNCHANGED <<toast, saveBtnDisabled, formPending, saves>>
       ELSE /\ saves < MaxSaves
            /\ saves' = saves + 1
            /\ saveBtnDisabled' = TRUE
            /\ formPending' =
                 [ kind    |-> IF formState.mode = "create" THEN "create" ELSE "update",
                   eventId |-> formState.currentEventId,
                   sent    |-> eventData(nombreEvento, responsableId),
                   cats    |-> formState.categorias,
                   alias   |-> TRUE ]
            /\ io' = IF formState.mode = "create"
                     THEN <<"firestore.addDoc">> ELSE <<"firestore.updateDoc">>
            /\ UNCHANGED toast
    /\ UNCHANGED <<otherThanForm, storeVars, formState, colorIndex, nextId>>

\* createEvent after addDoc (storage.js 111-123, saveEventToLocalStorage
\* 251-266), then createNewEvent (events.js 375-388)
createEventDone(writeOk) ==
    /\ formPending.kind = "create"
    /\ io' = <<"localStorage.setItem">>
    /\ IF writeOk
       THEN /\ fsEvents' = fsEvents @@
                 (DocId(saves) :> (formPending.sent @@ [fotos |-> <<>>]))
            /\ lsEvents' = Append(lsEvents,
                 [id |-> DocId(saves), categorias |-> formPending.cats,
                  fotos |-> <<>>] @@ formPending.sent)
       ELSE /\ fsEvents' = fsEvents
            /\ lsEvents' = Append(lsEvents,
                 [id |-> LocalId(saves), categorias |-> formPending.cats]
                 @@ formPending.sent)
    /\ toast' = Toast("Evento creado exitosamente", "success")
    /\ resetFormState
    /\ formPending' = NoPending
    /\ UNCHANGED <<otherThanForm, nextId, saves>>

\* updateEvent after updateDoc (storage.js 199-214, updateEventInLocalStorage
\* 293-308), then updateExistingEvent (events.js 404-417).  The write can
\* succeed only on a document that exists.
updateEventDone(writeOk) ==
    /\ formPending.kind = "update"
    /\ writeOk => formPending.eventId \in DOMAIN fsEvents
    /\ LET newLs == updateEventInLocalStorage(formPending.eventId,
                        [categorias |-> formPending.cats] @@ formPending.sent) IN
       /\ lsEvents' = newLs
       /\ io' = IF newLs = lsEvents /\ formPending.eventId \notin
                      {lsEvents[i].id : i \in 1..Len(lsEvents)}
                THEN <<>> ELSE <<"localStorage.setItem">>
    /\ fsEvents' = IF writeOk
                   THEN [fsEvents EXCEPT ![formPending.eventId] = formPending.sent @@ @]
                   ELSE fsEvents
    /\ toast' = Toast("Evento actualizado exitosamente", "success")
    /\ resetFormState
    /\ formPending' = NoPending
    /\ UNCHANGED <<otherThanForm, nextId, saves>>

\* loadEventForEdit (events.js 432-476)
loadEventForEdit(eventId, readOk) ==
    LET event == getEventById(eventId, readOk) IN
    /\ io' = <<"firestore.getDoc">>
    /\ IF event = NullEvent
       THEN /\ toast' = Toast("Evento no encontrado", "error")
            /\ UNCHANGED <<formState, colorIndex, formPending>>
       ELSE /\ formState' = [mode |-> "edit", currentEventId |-> eventId,
                             categorias |-> event.categorias]
            /\ colorIndex' = 0
            /\ formPending' = unaliasPending
            /\ UNCHANGED toast
    /\ UNCHANGED <<otherThanForm, storeVars, nextId, saveBtnDisabled, saves>>

\* handleCancel (events.js 529-541), the user confirming the discard
handleCancel ==
    /\ io' = <<>>
    /\ resetFormState
    /\ formPending' = unaliasPending
    /\ UNCHANGED <<otherThanForm, storeVars, toast, nextId, saves>>

(***************************************************************************)
(* SpecForm: the event form over a store holding at most one saved event   *)
(***************************************************************************)

SavedCategory == [id |-> 0, nombre |-> <<"a", "b">>, color |-> "#0ea5e9", isCustom |-> TRUE]
SavedEvent == [nombre |-> <<"e">>, responsableId |-> "u1",
               categorias |-> <<SavedCategory>>, fotos |-> <<>>]

FormInit ==
    /\ PureIdle
    /\ LaterIdle
    /\ SharedIdle
    /\ FormIdle
    /\ AuthIdle
    /\ ReportIdle
    /\ UploadIdle
    /\ \/ StoreIdle
       \/ /\ fsEvents = (DocId(0) :> SavedEvent)
          /\ lsEvents = <<[id |-> DocId(0)] @@ SavedEvent>>

FormEventIds == {DocId(0), DocId(1)}

FormNext ==
    \/ \E raw \in FormNameInputs : handleAddCustomCategory(raw)
    \/ \E name \in {<<"A", "&", "B">>, <<"a", "b">>} :
          addCatalogCategory(name)
    \/ \E id \in 0..(MaxIds + 1) : removeCategory(id)
    \/ \E nameInput \in {<<" ">>, <<"e">>}, responsableId \in {"", "u1"},
          confirmed \in BOOLEAN :
          handleFormSubmit(nameInput, responsableId, confirmed)
    \/ \E writeOk \in BOOLEAN : createEventDone(writeOk)
    \/ \E writeOk \in BOOLEAN : updateEventDone(writeOk)
    \/ \E eventId \in FormEventIds, readOk \in BOOLEAN : loadEventForEdit(eventId, readOk)
    \/ handleCancel

SpecForm == FormInit /\ [][FormNext]_vars

(***************************************************************************)
(* C3 and C5: the category list of the form                                *)
(***************************************************************************)

\* C3: a step of handleAddCustomCategory whose trimmed input is a
\* case-insensitive duplicate of a category of the form shows an error
\* message and leaves formState.categorias as it was.
C3_DuplicateRejected ==
    [][\A raw \in FormNameInputs :
          (DuplicateIn(trim(raw), formState.categorias) /\ handleAddCustomCategory(raw))
          => /\ toast'.type = "error"
             /\ formState'.categorias = formState.categorias]_vars

\* C3 witness: the duplicate message is showing over a form that holds a
\* category whose name differs from a typed input only by case and padding
C3_Witness ==
    /\ toast = Toast(MsgNameDuplicate, "error")
    /\ \E i \in 1..Len(formState.categorias), raw \in FormNameInputs :
          /\ formState.categorias[i].nombre # trim(raw)
          /\ raw # trim(raw)
          /\ toLowerCase(formState.categorias[i].nombre) = toLowerCase(trim(raw))

\* the categories without those of the given id, in their order, stated by
\* position
Without(cats, id) ==
    LET keep == {i \in 1..Len(cats) : cats[i].id # id}
        nth(k) == CHOOSE i \in keep : Cardinality({j \in keep : j < i}) = k - 1
    IN  [k \in 1..Cardinality(keep) |-> cats[nth(k)]]

\* C5: a step of removeCategory(id) leaves the form's list without that
\* category, the others in their order, and writes neither store; the stored
\* events change only in the step that completes a submitted save.
C5_RemoveCategory ==
    [][/\ \A id \in 0..(MaxIds + 1) :
             removeCategory(id) =>
                /\ formState'.categorias = Without(formState.categorias, id)
                /\ fsEvents' = fsEvents
                /\ lsEvents' = lsEvents
                /\ io' = <<>>
       /\ (fsEvents' # fsEvents \/ lsEvents' # lsEvents) =>
             formPending.kind \in {"create", "update"} /\ formPending' = NoPending]_vars

\* C5 witness: the saved event was loaded, a category was added and the
\* loaded one removed: the form holds the added one alone and the stored
\* event still holds the loaded one
C5_Witness ==
    /\ formState.mode = "edit"
    /\ formState.currentEventId = DocId(0)
    /\ DocId(0) \in DOMAIN fsEvents
    /\ fsEvents[DocId(0)].categorias = <<SavedCategory>>
    /\ Len(formState.categorias) = 1
    /\ formState.categorias[1].id = 1

\* C11 as stated: the step that completes an event save whose Firestore
\* write failed shows an error message, shows no success message and leaves
\* the save button enabled.
C11_AsStated ==
    [][(createEventDone(FALSE) \/ updateEventDone(FALSE)) =>
          /\ toast'.type = "error"
          /\ toast'.type # "success"
          /\ saveBtnDisabled' = FALSE]_vars

(***************************************************************************)
(* utils.js, auth.js, user-management.js: the login, password-reset and    *)
(* add-user forms                                                          *)
(***************************************************************************)

\* a character that [^\s@] matches
NotSpaceNorAt(c) == ~IsWhitespace(c) /\ c # "@"

\* [^\s@]+ matching s[lo..hi] whole
Plain(s, lo, hi) == lo <= hi /\ \A k \in lo..hi : NotSpaceNorAt(s[k])

\* mutant: the pattern without its \.[^\s@]+ part
isValidEmail_NoDomainDot(email) ==
    \E i \in 1..Len(email) :
        /\ email[i] = "@"
        /\ Plain(email, 1, i - 1)
        /\ Plain(email, i + 1, Len(email))

\* isValidEmail: /^[^\s@]+@[^\s@]+\.[^\s@]+$/.test(email)
isValidEmail(email) ==
    \E i \in 1..Len(email), j \in 1..Len(email) :
        /\ email[i] = "@"
        /\ email[j] = "."
        /\ Plain(email, 1, i - 1)
        /\ Plain(email, i + 1, j - 1)
        /\ Plain(email, j + 1, Len(email))

MinPasswordLen == 6
MinNombreLen == 3

\* isValidPassword: password.length >= 6
isValidPassword(password) == Len(password) >= MinPasswordLen

\* mutant: the length test of handleAddUser off by one
passwordTooShort_OffByOne(password) == Len(password) < MinPasswordLen - 1

\* handleAddUser: password.length < 6
passwordTooShort(password) == Len(password) < MinPasswordLen

\* handleAddUser: password !== passwordConfirm
passwordsDiffer(password, passwordConfirm) == password # passwordConfirm

\* what is typed into the email fields
EmailInputs ==
    { <<>>, <<" ">>,
      <<"a", "@", "b", ".", "c">>,
      <<" ", "a", "@", "b", ".", "c", " ">>,
      <<"a", "@", "b">>,
      <<"a", "b", ".", "c">>,
      <<"a", " ", "@", "b", ".", "c">>,
      <<"a", "@", "b", ".">> }

\* what is typed into the password fields
PasswordInputs ==
    { <<>>, Rep("p", MinPasswordLen - 1), Rep("p", MinPasswordLen), Rep("q", MinPasswordLen) }

\* what is typed into the name field of the add-user form
NombreInputs == { <<>>, <<"a", "b">>, <<"a", "b", "c">> }

\* the call each request makes
AuthCall(kind) ==
    CASE kind = "signIn" -> "auth.signInWithEmailAndPassword"
      [] kind = "reset" -> "auth.sendPasswordResetEmail"
      [] kind = "checkEmail" -> "firestore.getDocs"
      [] kind = "createUser" -> "auth.createUserWithEmailAndPassword"
      [] kind = "setDoc" -> "firestore.setDoc"
      [] kind = "signOut" -> "auth.signOut"

\* a rejection: the message, and nothing else
reject(text) ==
    /\ toast' = Toast(text, "error")
    /\ io' = <<>>
    /\ UNCHANGED <<authVars, otherThanAuth>>

\* a request sent: the submission is suspended at its await.  At most one
\* request is in flight.
request(req) ==
    /\ authPending = NoRequest
    /\ authPending' = req
    /\ io' = <<AuthCall(req.kind)>>

\* handleLogin up to its await (auth.js 463-491)
handleLogin(emailInput, password) ==
    LET email == trim(emailInput) IN
    IF email = <<>> \/ password = <<>>
    THEN reject("Por favor completa todos los campos")
    ELSE IF ~isValidEmail(email)
    THEN reject("El correo electronico no es valido")
    ELSE IF ~isValidPassword(password)
    THEN reject("La contrasena debe tener al menos 6 caracteres")
    ELSE /\ request([kind |-> "signIn", email |-> email])
         /\ UNCHANGED <<toast, authUsers, userDocs, currentUser, addUserBtnDisabled,
                        otherThanAuth>>

\* handleLogin after signInWithEmailAndPassword (auth.js 491-512); the sign-in
\* can succeed only for an account of the provider
signInDone(ok) ==
    /\ authPending.kind = "signIn"
    /\ ok => authPending.email \in authUsers
    /\ authPending' = NoRequest
    /\ io' = <<>>
    /\ IF ok
       THEN /\ currentUser' = authPending.email
            /\ toast' = Toast("Bienvenido de nuevo", "success")
       ELSE /\ currentUser' = currentUser
            /\ toast' = Toast("getFirebaseErrorMessage", "error")
    /\ UNCHANGED <<authUsers, userDocs, addUserBtnDisabled, otherThanAuth>>

\* handlePasswordReset up to its await (auth.js 519-540)
handlePasswordReset(emailInput) ==
    LET email == trim(emailInput) IN
    IF email = <<>>
    THEN reject("Por favor ingresa tu correo electronico")
    ELSE IF ~isValidEmail(email)
    THEN reject("El correo electronico no es valido")
    ELSE /\ request([kind |-> "reset", email |-> email])
         /\ UNCHANGED <<toast, authUsers, userDocs, currentUser, addUserBtnDisabled,
                        otherThanAuth>>

\* handlePasswordReset after sendPasswordResetEmail (auth.js 540-557)
resetDone(ok) ==
    /\ authPending.kind = "reset"
    /\ authPending' = NoRequest
    /\ io' = <<>>
    /\ toast' = IF ok THEN Toast("Correo enviado", "success")
                ELSE Toast("getFirebaseErrorMessage", "error")
    /\ UNCHANGED <<authUsers, userDocs, currentUser, addUserBtnDisabled, otherThanAuth>>

\* handleAddUser up to its first await (user-management.js 84-128)
handleAddUser(nombreInput, emailInput, password, passwordConfirm) ==
    LET nombre == trim(nombreInput)
        email == trim(emailInput) IN
    IF nombre = <<>>
    THEN reject("El nombre es requerido")
    ELSE IF Len(nombre) < MinNombreLen
    THEN reject("El nombre debe tener al menos 3 caracteres")
    ELSE IF email = <<>>
    THEN reject("El email es requerido")
    ELSE IF ~isValidEmail(email)
    THEN reject("El email no es valido")
    ELSE IF password = <<>>
    THEN reject("La contrasena es requerida")
    ELSE IF passwordTooShort(password)
    THEN reject("La contrasena debe tener al menos 6 caracteres")
    ELSE IF passwordsDiffer(password, passwordConfirm)
    THEN reject("Las contrasenas no coinciden")
    ELSE /\ request([kind |-> "checkEmail", email |-> email, nombre |-> nombre])
         /\ UNCHANGED <<toast, authUsers, userDocs, currentUser, addUserBtnDisabled,
                        otherThanAuth>>

\* handleAddUser after checkEmailExistsInFirestore (user-management.js
\* 128-150, 228-240): a failed query counts as no such email
checkEmailDone(queryOk) ==
    LET emailExistsInFirestore ==
            queryOk /\ \E d \in userDocs : d.email = authPending.email IN
    /\ authPending.kind = "checkEmail"
    /\ IF emailExistsInFirestore
       THEN /\ toast' = Toast("Este email ya esta registrado en el sistema", "error")
            /\ authPending' = NoRequest
            /\ io' = <<>>
            /\ UNCHANGED addUserBtnDisabled
       ELSE /\ addUserBtnDisabled' = TRUE
            /\ authPending' = [authPending EXCEPT !.kind = "createUser"]
            /\ io' = <<AuthCall("createUser")>>
            /\ UNCHANGED toast
    /\ UNCHANGED <<authUsers, userDocs, currentUser, otherThanAuth>>

\* the catch of handleAddUser (user-management.js 181-205)
addUserFailed ==
    /\ toast' = Toast("Error al crear usuario", "error")
    /\ addUserBtnDisabled' = FALSE
    /\ authPending' = NoRequest
    /\ io' = <<>>

\* handleAddUser after createUserWithEmailAndPassword (user-management.js
\* 150-167); the provider holds one account per email and signs the new one in
createUserDone(ok) ==
    /\ authPending.kind = "createUser"
    /\ ok => authPending.email \notin authUsers
    /\ IF ok
       THEN /\ authUsers' = authUsers \cup {authPending.email}
            /\ currentUser' = authPending.email
            /\ authPending' = [authPending EXCEPT !.kind = "setDoc"]
            /\ io' = <<AuthCall("setDoc")>>
            /\ UNCHANGED <<toast, addUserBtnDisabled>>
       ELSE /\ addUserFailed
            /\ UNCHANGED <<authUsers, currentUser>>
    /\ UNCHANGED <<userDocs, otherThanAuth>>

\* handleAddUser after setDoc (user-management.js 167-172)
setDocDone(ok) ==
    /\ authPending.kind = "setDoc"
    /\ IF ok
       THEN /\ userDocs' = userDocs \cup
                 {[email |-> authPending.email, nombre |-> authPending.nombre]}
            /\ authPending' = [authPending EXCEPT !.kind = "signOut"]
            /\ io' = <<AuthCall("signOut")>>
            /\ UNCHANGED <<toast, addUserBtnDisabled>>
       ELSE /\ addUserFailed
            /\ UNCHANGED userDocs
    /\ UNCHANGED <<authUsers, currentUser, otherThanAuth>>

\* handleAddUser after auth.signOut (user-management.js 172-180, resetForm
\* 315-324)
signOutDone(ok) ==
    /\ authPending.kind = "signOut"
    /\ IF ok
       THEN /\ currentUser' = NoUser
            /\ toast' = Toast("Usuario creado exitosamente", "success")
            /\ addUserBtnDisabled' = FALSE
            /\ authPending' = NoRequest
            /\ io' = <<>>
       ELSE /\ addUserFailed
            /\ UNCHANGED currentUser
    /\ UNCHANGED <<authUsers, userDocs, otherThanAuth>>

(***************************************************************************)
(* SpecAuth: the three forms over a provider holding at most one account   *)
(***************************************************************************)

KnownEmail == <<"a", "@", "b", ".", "c">>

AuthInit ==
    /\ PureIdle
    /\ LaterIdle
    /\ SharedIdle
    /\ StoreIdle
    /\ FormIdle
    /\ ReportIdle
    /\ UploadIdle
    /\ authUsers \in {{}, {KnownEmail}}
    /\ userDocs \in {{}, {[email |-> KnownEmail, nombre |-> <<"a", "b", "c">>]}}
    /\ currentUser = NoUser
    /\ authPending = NoRequest
    /\ addUserBtnDisabled = FALSE

AuthNext ==
    \/ \E emailInput \in EmailInputs, password \in PasswordInputs :
          handleLogin(emailInput, password)
    \/ \E ok \in BOOLEAN : signInDone(ok)
    \/ \E emailInput \in EmailInputs : handlePasswordReset(emailInput)
    \/ \E ok \in BOOLEAN : resetDone(ok)
    \/ \E nombreInput \in NombreInputs, emailInput \in EmailInputs,
          password \in PasswordInputs, passwordConfirm \in PasswordInputs :
          handleAddUser(nombreInput, emailInput, password, passwordConfirm)
    \/ \E queryOk \in BOOLEAN : checkEmailDone(queryOk)
    \/ \E ok \in BOOLEAN : createUserDone(ok)
    \/ \E ok \in BOOLEAN : setDocDone(ok)
    \/ \E ok \in BOOLEAN : signOutDone(ok)

SpecAuth == AuthInit /\ [][AuthNext]_vars

(***************************************************************************)
(* C6 and C7: what the forms check before any request                      *)
(***************************************************************************)

\* the basic pattern, stated on its own: no whitespace, one "@" that is not
\* the first character, and after it a "." with a character on either side
MatchesBasicPattern(s) ==
    LET ats == {i \in 1..Len(s) : s[i] = "@"} IN
    /\ \A i \in 1..Len(s) : ~IsWhitespace(s[i])
    /\ Cardinality(ats) = 1
    /\ \E i \in ats :
          /\ i > 1
          /\ \E j \in (i + 2)..(Len(s) - 1) : s[j] = "."

\* a step that rejected the submission: an error message, no call to the auth
\* provider or the document database, and no request left awaiting
Rejected ==
    /\ toast'.type = "error"
    /\ io' = <<>>
    /\ authPending' = authPending
    /\ authUsers' = authUsers
    /\ userDocs' = userDocs

\* C6: a login, password-reset or add-user submission whose email, trimmed as
\* the handlers trim it, does not match the basic pattern shows an error
\* message and issues no network call.
C6_InvalidEmailRejected ==
    [][\A emailInput \in EmailInputs :
          \/ MatchesBasicPattern(trim(emailInput))
          \/ Rejected
          \/ ~ \/ \E password \in PasswordInputs : handleLogin(emailInput, password)
               \/ handlePasswordReset(emailInput)
               \/ \E nombreInput \in NombreInputs, password \in PasswordInputs,
                     passwordConfirm \in PasswordInputs :
                     handleAddUser(nombreInput, emailInput, password, passwordConfirm)]_vars

\* C6 witness: the add-user form showed its invalid-email message while a
\* request of an earlier submission was awaiting: the email check itself
\* rejected the submission, and the rejected submission sent nothing
C6_Witness ==
    /\ toast = Toast("El email no es valido", "error")
    /\ io = <<>>
    /\ authPending.kind = "reset"

\* C7: a step of handleAddUser whose password is empty, shorter than 6
\* characters or different from its confirmation shows an error message,
\* creates no auth user, writes no user document and sends no request.
C7_BadPasswordRejected ==
    [][\A password \in PasswordInputs, passwordConfirm \in PasswordInputs :
          \/ Len(password) >= 6 /\ password = passwordConfirm
          \/ Rejected
          \/ ~ \E nombreInput \in NombreInputs, emailInput \in EmailInputs :
                  handleAddUser(nombreInput, emailInput, password, passwordConfirm)]_vars

\* C7 witness: the mismatch message is showing, so the name, the email and the
\* password length had passed; no account and no document exists
C7_Witness ==
    /\ toast = Toast("Las contrasenas no coinciden", "error")
    /\ io = <<>>
    /\ authUsers = {}
    /\ userDocs = {}

(***************************************************************************)
(* photos.js, reports.js: the Word document of an event                    *)
(***************************************************************************)

\* mutant: the filter keeps every photo
filterPhotosByCategory_All(photos, categoryId) == photos

\* filterPhotosByCategory: photos.filter(photo => photo.categoryId === categoryId)
filterPhotosByCategory(photos, categoryId) ==
    SelectSeq(photos, LAMBDA photo : photo.categoryId = categoryId)

ImageCell(photoId, data) == [kind |-> "image", photoId |-> photoId, data |-> data]
EmptyCell == [kind |-> "empty"]

\* mutant: the third photo of a row is dropped
rowCells_NoThird(photos, i, imageBuffers) ==
    LET has(k) == k <= Len(photos) /\ photos[k].id \in DOMAIN imageBuffers
        cell(k) == ImageCell(photos[k].id, imageBuffers[photos[k].id])
    IN  (IF has(i) THEN <<cell(i)>> ELSE <<>>)
        \o (IF has(i + 1) THEN <<cell(i + 1)>> ELSE <<EmptyCell>>)
        \o <<EmptyCell>>

\* the cells of the table row that starts at photos[i] (reports.js 287-378);
\* imageBuffers is the map of downloadAllImages
rowCells(photos, i, imageBuffers) ==
    LET has(k) == k <= Len(photos) /\ photos[k].id \in DOMAIN imageBuffers
        cell(k) == ImageCell(photos[k].id, imageBuffers[photos[k].id])
    IN  (IF has(i) THEN <<cell(i)>> ELSE <<>>)
        \o (IF has(i + 1) THEN <<cell(i + 1)>> ELSE <<EmptyCell>>)
        \o (IF has(i + 2) THEN <<cell(i + 2)>> ELSE <<EmptyCell>>)

\* createCategorySection (reports.js 265-455): the title and one table per
\* three photos
createCategorySection(category, photos, imageBuffers) ==
    [ kind       |-> "category",
      categoryId |-> category.id,
      title      |-> category.nombre,
      rows       |-> [r \in 1..((Len(photos) + 2) \div 3) |->
                         rowCells(photos, 3 * (r - 1) + 1, imageBuffers)] ]

\* the loop of createWordDocument over event.categorias, from the k-th on
\* (reports.js 238-252)
RECURSIVE categorySections(_, _, _)
categorySections(event, imageBuffers, k) ==
    IF k > Len(event.categorias) THEN <<>>
    ELSE LET category == event.categorias[k]
             categoryPhotos == filterPhotosByCategory(event.fotos, category.id)
         IN  (IF Len(categoryPhotos) > 0
              THEN <<createCategorySection(category, categoryPhotos, imageBuffers)>>
              ELSE <<>>)
             \o categorySections(event, imageBuffers, k + 1)

\* createWordDocument after downloadAllImages (reports.js 92-255): the cover,
\* then the sections of the categories
createWordDocument(event, imageBuffers) ==
    [ sections |->
        <<[kind |-> "cover", nombre |-> event.nombre, total |-> Len(event.fotos)]>>
        \o categorySections(event, imageBuffers, 1) ]

(***************************************************************************)
(* report-manager.js, reports.js: generateReport, one action per await     *)
(***************************************************************************)

\* bounds: the photos of an event, and the generateReport calls suspended at
\* once (the guard of generateReport keeps them to one)
MaxPhotos == 2
MaxRuns == 2

NoBuffers == [id \in {} |-> ""]
NoBlob == [sections |-> <<>>]

\* a generateReport call that has just passed its guard
NewRun(eventId) ==
    [ pc |-> "getEvent", eventId |-> eventId, event |-> NullEvent, email |-> <<>>,
      i |-> 0, imageBuffers |-> NoBuffers, outcomes |-> <<>>, blob |-> NoBlob ]

\* what a fetch of a photo can do: answer with the image, answer with an
\* HTTP error status and its error body, or reject (no connection)
FetchOutcomes == {"ok", "http_error", "network_error"}

\* fetch, response.blob() and blob.arrayBuffer() all resolved, so that
\* imageBuffers.set is reached (reports.js 471-475): response.ok is not read
fetchResolved(outcome) == outcome \in {"ok", "http_error"}

\* the array buffer that is then stored
bufferOf(outcome) == IF outcome = "ok" THEN "image" ELSE "error_body"

\* mutant: the flag is never found set
alreadyGenerating_Never == FALSE

\* the guard of generateReport (report-manager.js 176)
alreadyGenerating == isGenerating

\* the sequence without its r-th element
RemoveAt(seq, r) == SubSeq(seq, 1, r - 1) \o SubSeq(seq, r + 1, Len(seq))

\* the catch and the finally of generateReport (report-manager.js 239-251)
reportFailed(r, text) ==
    /\ toast' = Toast(text, "error")
    /\ isGenerating' = FALSE
    /\ reportRuns' = RemoveAt(reportRuns, r)
    /\ io' = <<>>

\* a call suspended at its next await
reportAwait(r, run, calls) ==
    /\ reportRuns' = [reportRuns EXCEPT ![r] = run]
    /\ io' = calls
    /\ UNCHANGED isGenerating

\* window.generateReport up to its first await (report-manager.js 175-196)
generateReport(eventId) ==
    /\ IF alreadyGenerating
       THEN /\ toast' = Toast("Ya hay un reporte generandose", "error")
            /\ io' = <<>>
            /\ UNCHANGED reportVars
       ELSE /\ Len(reportRuns) < MaxRuns
            /\ isGenerating' = TRUE
            /\ toast' = Toast("Generando reporte...", "info")
            /\ reportRuns' = Append(reportRuns, NewRun(eventId))
            /\ io' = <<"firestore.getDoc">>
    /\ UNCHANGED otherThanReport

\* generateReport after getEventById (report-manager.js 196-204)
reportGotEvent(r, readOk) ==
    LET run == reportRuns[r]
        eventRead == getEventById(run.eventId, readOk) IN
    /\ run.pc = "getEvent"
    /\ IF eventRead = NullEvent
       THEN reportFailed(r, "Evento no encontrado")
       ELSE /\ reportAwait(r, [run EXCEPT !.pc = "getUsers", !.event = eventRead],
                           <<"firestore.getDocs">>)
            /\ UNCHANGED toast
    /\ UNCHANGED otherThanReport

\* what getActiveUsers answers
UsuariosInputs ==
    { <<>>,
      <<[id |-> "u1", email |-> <<"a", "@", "b", ".", "c">>]>>,
      <<[id |-> "u1", email |-> <<"a", "@", "b">>]>>,
      <<[id |-> "u1", email |-> <<>>]>> }

\* generateReport after getActiveUsers (report-manager.js 204-219), into
\* generateWordReport up to waitForDocx (reports.js 38-43)
reportGotUsers(r, usuarios) ==
    LET run == reportRuns[r]
        hits == {k \in 1..Len(usuarios) : usuarios[k].id = run.event.responsableId} IN
    /\ run.pc = "getUsers"
    /\ IF hits = {}
       THEN reportFailed(r, "No se encontro el responsable del evento.")
       ELSE LET responsable == usuarios[CHOOSE k \in hits : \A j \in hits : k <= j] IN
            IF responsable.email = <<>>
            THEN reportFailed(r, "El usuario no tiene un email configurado")
            ELSE /\ toast' = Toast("Generando reporte para enviar a", "info")
                 /\ reportAwait(r, [run EXCEPT !.pc = "waitForDocx",
                                               !.email = responsable.email], <<>>)
    /\ UNCHANGED otherThanReport

\* generateWordReport after waitForDocx (reports.js 19-27, 43-46): the
\* library is there, or the wait ran out
reportDocxWaited(r, loaded) ==
    LET run == reportRuns[r] IN
    /\ run.pc = "waitForDocx"
    /\ IF ~loaded
       THEN reportFailed(r, "La libreria docx no se cargo correctamente")
       ELSE /\ reportAwait(r, [run EXCEPT !.pc = "getEvent2"], <<"firestore.getDoc">>)
            /\ UNCHANGED toast
    /\ UNCHANGED otherThanReport

\* mutant: only a missing photo list counts
hasNoPhotos_OnlyMissing(event) == "fotos" \notin DOMAIN event

\* the photo test of generateWordReport (reports.js 53): !event.fotos ||
\* event.fotos.length === 0
hasNoPhotos(event) == "fotos" \notin DOMAIN event \/ Len(event.fotos) = 0

\* generateWordReport after getEventById (reports.js 46-58), into
\* createWordDocument and downloadAllImages up to the first fetch
\* (reports.js 80-90, 462-471)
reportGotEvent2(r, readOk) ==
    LET run == reportRuns[r]
        event == getEventById(run.eventId, readOk) IN
    /\ run.pc = "getEvent2"
    /\ IF event = NullEvent
       THEN reportFailed(r, "Evento no encontrado")
       ELSE IF hasNoPhotos(event)
       THEN reportFailed(r, "El evento no tiene fotos para generar reporte")
       ELSE /\ toast' = Toast("Descargando imagenes...", "info")
            /\ reportAwait(r, [run EXCEPT !.pc = "download", !.event = event, !.i = 1],
                           <<"fetch">>)
    /\ UNCHANGED otherThanReport

\* downloadAllImages after the awaits of one photo (reports.js 468-485); after
\* the last photo, the rest of createWordDocument, Packer.toBlob and
\* generateReport up to the addDoc of sendReportByEmail (reports.js 92-255,
\* 58-65; report-manager.js 223-236; email-sender.js 29-69)
reportDownloaded(r, outcome) ==
    LET run == reportRuns[r]
        photo == run.event.fotos[run.i]
        imageBuffers == IF fetchResolved(outcome)
                        THEN (photo.id :> bufferOf(outcome)) @@ run.imageBuffers
                        ELSE run.imageBuffers
        downloaded == [run EXCEPT !.imageBuffers = imageBuffers,
                                  !.outcomes = Append(@, outcome)] IN
    /\ run.pc = "download"
    /\ IF run.i < Len(run.event.fotos)
       THEN /\ toast' = IF fetchResolved(outcome) /\ run.i % 5 = 0
                        THEN Toast("Descargadas imagenes...", "info") ELSE toast
            /\ reportAwait(r, [downloaded EXCEPT !.i = run.i + 1], <<"fetch">>)
       ELSE LET built == [downloaded EXCEPT
                            !.blob = createWordDocument(run.event, imageBuffers)] IN
            IF ~isValidEmail(run.email)
            THEN reportFailed(r, "Ningun email es valido")
            ELSE /\ toast' = Toast("Preparando email...", "info")
                 /\ reportAwait(r, [built EXCEPT !.pc = "send"], <<"firestore.addDoc">>)
    /\ UNCHANGED otherThanReport

\* generateReport after sendReportByEmail (report-manager.js 236-251)
reportSent(r, ok) ==
    LET run == reportRuns[r] IN
    /\ run.pc = "send"
    /\ IF ok
       THEN /\ toast' = Toast("Reporte enviado correctamente", "success")
            /\ isGenerating' = FALSE
            /\ reportRuns' = RemoveAt(reportRuns, r)
            /\ io' = <<>>
       ELSE reportFailed(r, "Error al procesar el reporte")
    /\ UNCHANGED otherThanReport

(***************************************************************************)
(* SpecReport: the report manager over one stored event                    *)
(***************************************************************************)

ReportCategory(id) == [id |-> id, nombre |-> <<"c">>, color |-> "#0ea5e9", isCustom |-> TRUE]

\* photo k of an event, filed under a category
ReportPhoto(k, categoryId) == [id |-> 10 + k, categoryId |-> categoryId, url |-> k]

\* the events: the category list is empty or holds categories 2 and 1 in that
\* order; each photo is filed under 1, 2 or under a category that is gone (3)
ReportEvents ==
    { [nombre |-> <<"e">>, responsableId |-> "u1", categorias |-> cats,
       fotos |-> [k \in 1..n |-> ReportPhoto(k, filing[k])]] :
        cats \in {<<>>, <<ReportCategory(2), ReportCategory(1)>>},
        n \in 0..MaxPhotos,
        filing \in [1..MaxPhotos -> 1..3] }
    \cup
    \* a document saved without a photo list
    { [nombre |-> <<"e">>, responsableId |-> "u1", categorias |-> <<>>] }

ReportInit ==
    /\ PureIdle
    /\ LaterIdle
    /\ SharedIdle
    /\ FormIdle
    /\ AuthIdle
    /\ ReportIdle
    /\ UploadIdle
    /\ lsEvents = <<>>
    /\ \E event \in ReportEvents : fsEvents = (DocId(0) :> event)

ReportNext ==
    \/ \E eventId \in {DocId(0), DocId(1)} : generateReport(eventId)
    \/ \E r \in 1..Len(reportRuns), readOk \in BOOLEAN : reportGotEvent(r, readOk)
    \/ \E r \in 1..Len(reportRuns), usuarios \in UsuariosInputs : reportGotUsers(r, usuarios)
    \/ \E r \in 1..Len(reportRuns), loaded \in BOOLEAN : reportDocxWaited(r, loaded)
    \/ \E r \in 1..Len(reportRuns), readOk \in BOOLEAN : reportGotEvent2(r, readOk)
    \/ \E r \in 1..Len(reportRuns), outcome \in FetchOutcomes : reportDownloaded(r, outcome)
    \/ \E r \in 1..Len(reportRuns), ok \in BOOLEAN : reportSent(r, ok)

SpecReport == ReportInit /\ [][ReportNext]_vars

(***************************************************************************)
(* C1, C2, C8 and C21: the report                                          *)
(***************************************************************************)

\* the positions of the event's category list whose category has a photo
WithPhotos(event) ==
    {p \in 1..Len(event.categorias) :
        \E k \in 1..Len(event.fotos) : event.fotos[k].categoryId = event.categorias[p].id}

\* the calls whose document has been built
BuiltRuns == {r \in 1..Len(reportRuns) : reportRuns[r].pc = "send"}

\* C1: a generated report is one cover section followed by one section per
\* category of the event that has at least one photo, in the order of the
\* category list; a category without photos has no section, and the document
\* is generated all the same.
C1_SectionsOfReport ==
    \A r \in BuiltRuns :
        LET event == reportRuns[r].event
            sections == reportRuns[r].blob.sections
            with == WithPhotos(event) IN
        /\ Len(sections) = 1 + Cardinality(with)
        /\ sections[1].kind = "cover"
        /\ \A p \in with :
              LET section == sections[1 + Cardinality({q \in with : q <= p})] IN
              /\ section.kind = "category"
              /\ section.categoryId = event.categorias[p].id

\* C1 witness: a report was generated for an event with two categories of
\* which the second alone has photos: the cover and that category's section
C1_Witness ==
    \E r \in BuiltRuns :
        LET event == reportRuns[r].event IN
        /\ Len(event.categorias) = 2
        /\ WithPhotos(event) = {2}
        /\ Len(reportRuns[r].blob.sections) = 2
        /\ reportRuns[r].blob.sections[2].categoryId = event.categorias[2].id

\* the calls that are in downloadAllImages or past it
DownloadingRuns == {r \in 1..Len(reportRuns) : reportRuns[r].pc \in {"download", "send"}}

\* C2 as stated: for an existing event with at least one photo and the docx
\* library loaded, the result map of downloadAllImages has an entry for
\* exactly the photos whose download succeeded, and generateWordReport
\* returns a document whatever the downloads did.
C2_AsStated ==
    \A r \in DownloadingRuns :
        LET run == reportRuns[r] IN
        /\ DOMAIN run.imageBuffers =
              {run.event.fotos[k].id : k \in {j \in 1..Len(run.outcomes) : run.outcomes[j] = "ok"}}
        /\ run.pc = "send" => run.blob.sections # <<>>

\* C8: while isGenerating is set, a step of generateReport shows an error
\* message, reads no event, starts no generation and sends nothing; at
\* most one generateReport call is in progress in any state.
C8_OneGeneration ==
    [][/\ Len(reportRuns') <= 1
       /\ \A eventId \in {DocId(0), DocId(1)} :
             (isGenerating /\ generateReport(eventId)) =>
                /\ toast'.type = "error"
                /\ io' = <<>>
                /\ reportRuns' = reportRuns
                /\ isGenerating']_vars

\* C8 witness: a click was refused while a call was downloading images
C8_Witness ==
    /\ isGenerating
    /\ Len(reportRuns) = 1
    /\ reportRuns[1].pc = "download"
    /\ toast = Toast("Ya hay un reporte generandose", "error")
    /\ io = <<>>

\* the event generateWordReport reads is not there, or has no photo to show
NothingToReport(eventId, readOk) ==
    LET event == getEventById(eventId, readOk) IN
    \/ event = NullEvent
    \/ "fotos" \notin DOMAIN event
    \/ event.fotos = <<>>

\* C21: when the event generateWordReport reads does not exist, or its photo
\* list is missing or empty, the call ends there with an error toast: no
\* fetch and no addDoc is issued, the call is over and isGenerating is
\* cleared; a call that downloads images or has built a document holds an
\* event with at least one photo, and a call before that has neither an
\* image nor a document.
C21_NothingToReport ==
    /\ [](\A r \in 1..Len(reportRuns) :
            LET run == reportRuns[r] IN
            IF r \in DownloadingRuns
            THEN /\ run.event # NullEvent
                 /\ "fotos" \in DOMAIN run.event
                 /\ Len(run.event.fotos) > 0
            ELSE /\ run.imageBuffers = NoBuffers
                 /\ run.outcomes = <<>>
                 /\ run.blob = NoBlob)
    /\ [][\A r \in 1..Len(reportRuns), readOk \in BOOLEAN :
            (reportGotEvent2(r, readOk) /\ NothingToReport(reportRuns[r].eventId, readOk)) =>
                /\ toast'.type = "error"
                /\ toast'.text \in {"Evento no encontrado",
                                    "El evento no tiene fotos para generar reporte"}
                /\ io' = <<>>
                /\ reportRuns' = RemoveAt(reportRuns, r)
                /\ ~isGenerating']_vars

\* C21 witness: a report was asked for an event that has categories and an
\* empty photo list; the call is over with the error shown and nothing sent
C21_Witness ==
    /\ "fotos" \in DOMAIN fsEvents[DocId(0)]
    /\ fsEvents[DocId(0)].fotos = <<>>
    /\ Len(fsEvents[DocId(0)].categorias) = 2
    /\ toast = Toast("El evento no tiene fotos para generar reporte", "error")
    /\ reportRuns = <<>>
    /\ ~isGenerating
    /\ io = <<>>

(***************************************************************************)
(* photos.js, photo-manager.js: processAndAddPhoto, one action per await   *)
(***************************************************************************)

\* bounds: the files of a batch, the photo ids generated, and the
\* processAndAddPhoto calls suspended at once (its guard keeps them to one)
MaxFiles == 2
MaxPhotoIds == 2
MaxUploads == 2

\* mutant: every file passes for an image
isImage_Always(file) == TRUE

\* processMultipleFiles: file.type.startsWith('image/')
isImage(file) == file.type = "image/jpeg"

\* mutant: the flag is never found set
alreadyUploading_Never == FALSE

\* the guard of processAndAddPhoto (photo-manager.js 611)
alreadyUploading == photoManagerState.isUploading

\* what processMultipleFiles notes of a file it is done with: whether the
\* compression worked, and how the upload ended
NotImage == [compress |-> "none", upload |-> "none"]

\* the first index from i on of an image file, Len(files) + 1 when there is none
nextImage(files, i) ==
    LET images == {j \in i..Len(files) : isImage(files[j])}
    IN  IF images = {} THEN Len(files) + 1
        ELSE CHOOSE j \in images : \A k \in images : j <= k

\* uploadPhotoToStorage: eventos/{eventId}/{photoId}.jpg
storagePath(eventId, photoId) == <<eventId, photoId>>

\* the object createPhotoObject returns (photos.js 143-152); compressed tells
\* whether the file sent was the compressed one
photoObject(run) ==
    [ id |-> run.photoId, categoryId |-> run.categoryId,
      fileName |-> run.files[run.i].name, compressed |-> run.compressed,
      storagePath |-> storagePath(run.eventId, run.photoId) ]

\* processMultipleFiles (photos.js 167-195) from file `from` on, for the call
\* at position r of runs, into the next createPhotoObject up to its await of
\* compressImage (photos.js 133-138); or, with no image file left, its return
\* and processAndAddPhoto up to the await of updateDoc (photo-manager.js
\* 630-641, 693-697; storage.js 194-202) or to its end with no photo
\* (photo-manager.js 631-635, 652-654). savePhotosToEvent reads
\* photoManagerState.currentEvent.id when it is called: the event shown at
\* that moment, and a TypeError caught by processAndAddPhoto when the photo
\* manager has been left (photo-manager.js 648-654)
pmfContinue(runs, r, run, from, shown) ==
    LET j == nextImage(run.files, from)
        skipped == [run EXCEPT !.outcomes = @ \o [k \in 1..(j - from) |-> NotImage]] IN
    IF j <= Len(run.files)
    THEN /\ uploadRuns' = [runs EXCEPT ![r] = [skipped EXCEPT !.pc = "compress", !.i = j,
                                                       !.photoId = nextId + 1]]
         /\ nextId' = nextId + 1
         /\ toast' = shown
         /\ photoManagerState' = [photoManagerState EXCEPT !.isUploading = TRUE]
         /\ UNCHANGED <<pmfResult, reported>>
    ELSE /\ UNCHANGED reported
         /\ pmfResult' = [returned |-> TRUE, files |-> run.files,
                          outcomes |-> skipped.outcomes, photos |-> skipped.photos]
         /\ nextId' = nextId
         /\ IF skipped.photos = <<>>
            THEN /\ toast' = Toast("No se pudo subir ninguna foto", "error")
                 /\ photoManagerState' = [photoManagerState EXCEPT !.isUploading = FALSE]
                 /\ uploadRuns' = RemoveAt(runs, r)
            ELSE IF photoManagerState.currentEvent = NullId
            THEN /\ toast' = Toast("Error al subir las fotos", "error")
                 /\ photoManagerState' =
                       [photoManagerState EXCEPT !.isUploading = FALSE,
                                                 !.photos = @ \o skipped.photos]
                 /\ uploadRuns' = RemoveAt(runs, r)
            ELSE /\ toast' = shown
                 /\ photoManagerState' =
                       [photoManagerState EXCEPT !.isUploading = TRUE,
                                                 !.photos = @ \o skipped.photos]
                 /\ uploadRuns' = [runs EXCEPT ![r] =
                       [skipped EXCEPT !.pc = "save",
                                       !.saveTo = photoManagerState.currentEvent,
                                       !.saved = photoManagerState.photos \o skipped.photos]]

\* the calls the call at position r of uploadRuns' has just made
uploadCalls(r) ==
    IF r > Len(uploadRuns') THEN <<>>
    ELSE IF uploadRuns'[r].pc = "save" THEN <<"firestore.updateDoc">> ELSE <<>>

\* a processAndAddPhoto call that has just passed its guard
NewUpload(files) ==
    [ pc |-> "start", files |-> files,
      categoryId |-> photoManagerState.currentCategoryId,
      eventId |-> photoManagerState.currentEvent,
      i |-> 0, photoId |-> 0, compressed |-> FALSE,
      photos |-> <<>>, outcomes |-> <<>>, saveTo |-> NullId, saved |-> <<>> ]

\* processAndAddPhoto up to its first await (photo-manager.js 610-629); the
\* upload buttons are on the photo manager
processAndAddPhoto(files) ==
    /\ photoManagerState.currentEvent # NullId
    /\ IF alreadyUploading
       THEN /\ toast' = Toast("Ya hay una carga en progreso", "error")
            /\ io' = <<>>
            /\ UNCHANGED <<uploadVars, nextId>>
       ELSE /\ Len(uploadRuns) < MaxUploads
            /\ nextId + Len(files) <= MaxPhotoIds
            /\ pmfContinue(Append(uploadRuns, NewUpload(files)), Len(uploadRuns) + 1,
                           NewUpload(files), 1, Toast("Subiendo fotos a la nube...", "info"))
            /\ io' = uploadCalls(Len(uploadRuns) + 1)
            /\ UNCHANGED storageFiles
    /\ UNCHANGED <<storeVars, otherThanUpload>>

\* createPhotoObject after compressImage (photos.js 92-110, 138-141), into
\* uploadPhotoToStorage up to the await of uploadBytes (photos.js 37-47):
\* compressImage answers with the original file when the compression fails
uploadCompressed(r, compressOk) ==
    LET run == uploadRuns[r] IN
    /\ run.pc = "compress"
    /\ uploadRuns' = [uploadRuns EXCEPT ![r] =
                         [run EXCEPT !.pc = "uploadBytes", !.compressed = compressOk]]
    /\ io' = <<"storage.uploadBytes">>
    /\ UNCHANGED <<toast, nextId, photoManagerState, storageFiles, pmfResult, reported,
                   storeVars, otherThanUpload>>

\* uploadPhotoToStorage after uploadBytes (photos.js 47-50); a failure is
\* thrown through createPhotoObject and caught by processMultipleFiles
\* (photos.js 54-57, 153-156, 188-191)
uploadedBytes(r, ok) ==
    LET run == uploadRuns[r] IN
    /\ run.pc = "uploadBytes"
    /\ IF ok
       THEN /\ storageFiles' = storageFiles \cup {storagePath(run.eventId, run.photoId)}
            /\ uploadRuns' = [uploadRuns EXCEPT ![r] = [run EXCEPT !.pc = "getDownloadURL"]]
            /\ io' = <<"storage.getDownloadURL">>
            /\ UNCHANGED <<toast, nextId, photoManagerState, pmfResult, reported>>
       ELSE /\ pmfContinue(uploadRuns, r,
                  [run EXCEPT !.outcomes = Append(@,
                      [compress |-> IF run.compressed THEN "ok" ELSE "failed",
                       upload |-> "uploadBytes_failed"])],
                  run.i + 1, toast)
            /\ io' = uploadCalls(r)
            /\ UNCHANGED storageFiles
    /\ UNCHANGED <<storeVars, otherThanUpload>>

\* uploadPhotoToStorage after getDownloadURL (photos.js 50-53), the photo
\* object and the push of processMultipleFiles (photos.js 143-152, 181-187)
gotDownloadURL(r, ok) ==
    LET run == uploadRuns[r]
        compress == IF run.compressed THEN "ok" ELSE "failed" IN
    /\ run.pc = "getDownloadURL"
    /\ IF ok
       THEN pmfContinue(uploadRuns, r,
                [run EXCEPT !.photos = Append(@, photoObject(run)),
                            !.outcomes = Append(@, [compress |-> compress, upload |-> "ok"])],
                run.i + 1, Toast("Subiendo foto...", "info"))
       ELSE pmfContinue(uploadRuns, r,
                [run EXCEPT !.outcomes = Append(@,
                    [compress |-> compress, upload |-> "getDownloadURL_failed"])],
                run.i + 1, toast)
    /\ io' = uploadCalls(r)
    /\ UNCHANGED <<storageFiles, storeVars, otherThanUpload>>

\* renderCategoryTabs(photoManagerState.currentEvent.categorias) throws a
\* TypeError when the photo manager has been left (photo-manager.js 644)
leftMeanwhile == photoManagerState.currentEvent = NullId

\* savePhotosToEvent after updateEvent (storage.js 199-214), then the rest of
\* processAndAddPhoto (photo-manager.js 641-654); updateEvent throws nothing
savedPhotos(r, writeOk) ==
    LET run == uploadRuns[r] IN
    /\ run.pc = "save"
    /\ writeOk => run.saveTo \in DOMAIN fsEvents
    /\ fsEvents' = IF writeOk
                   THEN [fsEvents EXCEPT ![run.saveTo] = [fotos |-> run.saved] @@ @]
                   ELSE fsEvents
    /\ lsEvents' = updateEventInLocalStorage(run.saveTo, [fotos |-> run.saved])
    /\ io' = <<"localStorage.setItem">>
    /\ IF leftMeanwhile
       THEN /\ toast' = Toast("Error al subir las fotos", "error")
            /\ UNCHANGED reported
       ELSE /\ toast' = Toast("foto(s) subida(s) correctamente", "success")
            /\ reported' = [reported EXCEPT
                               !.uploaded = @ \cup {run.photos[k].id : k \in 1..Len(run.photos)}]
    /\ photoManagerState' = [photoManagerState EXCEPT !.isUploading = FALSE]
    /\ uploadRuns' = RemoveAt(uploadRuns, r)
    /\ UNCHANGED <<nextId, storageFiles, pmfResult, otherThanUpload>>

(***************************************************************************)
(* SpecUpload: the photo manager open on a stored event                    *)
(***************************************************************************)

\* the batches: files 1..n, each an image or a document
UploadFile(k, type) == [name |-> k, type |-> type]
FileBatches ==
    { [k \in 1..n |-> UploadFile(k, types[k])] :
        n \in 0..MaxFiles, types \in [1..MaxFiles -> {"image/jpeg", "application/pdf"}] }

UploadEvent ==
    [nombre |-> <<"e">>, responsableId |-> "u1",
     categorias |-> <<ReportCategory(1)>>, fotos |-> <<>>]

\* openPhotoManager has loaded the event and selected its first category
\* (photo-manager.js 361-391)
UploadInit ==
    /\ PureIdle
    /\ LaterIdle
    /\ SharedIdle
    /\ FormIdle
    /\ AuthIdle
    /\ ReportIdle
    /\ fsEvents = (DocId(0) :> UploadEvent)
    /\ lsEvents \in {<<>>, <<[id |-> DocId(0)] @@ UploadEvent>>}
    /\ photoManagerState = [currentEvent |-> DocId(0), currentCategoryId |-> 1,
                            photos |-> <<>>, isUploading |-> FALSE]
    /\ uploadRuns = <<>>
    /\ storageFiles = {}
    /\ pmfResult = NoResult
    /\ reported = NothingReported

UploadNext ==
    \/ \E files \in FileBatches : processAndAddPhoto(files)
    \/ \E r \in 1..Len(uploadRuns), compressOk \in BOOLEAN : uploadCompressed(r, compressOk)
    \/ \E r \in 1..Len(uploadRuns), ok \in BOOLEAN : uploadedBytes(r, ok)
    \/ \E r \in 1..Len(uploadRuns), ok \in BOOLEAN : gotDownloadURL(r, ok)
    \/ \E r \in 1..Len(uploadRuns), writeOk \in BOOLEAN : savedPhotos(r, writeOk)

SpecUpload == UploadInit /\ [][UploadNext]_vars

(***************************************************************************)
(* C9 and C10: the batch upload                                            *)
(***************************************************************************)

\* C9: while isUploading is set, a step of processAndAddPhoto shows 'Ya hay
\* una carga en progreso', uploads nothing, leaves the photo list as it was
\* and isUploading set; at most one processAndAddPhoto call is in progress in
\* any state.
C9_OneUpload ==
    [][/\ Len(uploadRuns') <= 1
       /\ \A files \in FileBatches :
             (photoManagerState.isUploading /\ processAndAddPhoto(files)) =>
                /\ toast' = Toast("Ya hay una carga en progreso", "error")
                /\ io' = <<>>
                /\ storageFiles' = storageFiles
                /\ uploadRuns' = uploadRuns
                /\ photoManagerState'.photos = photoManagerState.photos
                /\ photoManagerState'.isUploading]_vars

\* C9 witness: a batch was refused while the running one awaited uploadBytes
C9_Witness ==
    /\ photoManagerState.isUploading
    /\ Len(uploadRuns) = 1
    /\ uploadRuns[1].pc = "uploadBytes"
    /\ toast = Toast("Ya hay una carga en progreso", "error")
    /\ io = <<>>

\* the names of the files of a returned batch that satisfy keep, in input
\* order; keep is given the file and what was noted of it
Kept(result, keep(_, _)) ==
    LET at == {k \in 1..Len(result.files) : keep(result.files[k], result.outcomes[k])}
        nth(n) == CHOOSE k \in at : Cardinality({j \in at : j < k}) = n - 1
    IN  [n \in 1..Cardinality(at) |-> result.files[nth(n)].name]

\* the file names of the photo objects returned
Names(photos) == [n \in 1..Len(photos) |-> photos[n].fileName]

\* the file is an image, stated on its own
ImageFile(file) == file.type \in {"image/jpeg", "image/png"}

\* C10 as stated: processMultipleFiles notes every file in input order, and
\* returns one photo object for exactly the image files whose upload
\* succeeded, in input order, a file that is not an image or whose
\* compression or upload failed having none.
C10_AsStated ==
    pmfResult.returned =>
        /\ Len(pmfResult.outcomes) = Len(pmfResult.files)
        /\ Names(pmfResult.photos) =
              Kept(pmfResult, LAMBDA file, noted : ImageFile(file) /\ noted.upload = "ok")
        /\ Names(pmfResult.photos) =
              Kept(pmfResult, LAMBDA file, noted :
                      ImageFile(file) /\ noted.compress = "ok" /\ noted.upload = "ok")

\* C10 amended: the same, but a file whose compression failed is uploaded as
\* it is and has its photo object when that upload succeeds: only the files
\* that are no images and those whose upload failed have none.
C10_ProcessMultipleFiles ==
    pmfResult.returned =>
        /\ Len(pmfResult.outcomes) = Len(pmfResult.files)
        /\ Names(pmfResult.photos) =
              Kept(pmfResult, LAMBDA file, noted : ImageFile(file) /\ noted.upload = "ok")
        /\ \A k \in 1..Len(pmfResult.files) :
              ~ImageFile(pmfResult.files[k]) => pmfResult.outcomes[k] = NotImage
        /\ \A n \in 1..Len(pmfResult.photos) :
              \E k \in 1..Len(pmfResult.files) :
                 /\ pmfResult.files[k].name = pmfResult.photos[n].fileName
                 /\ pmfResult.photos[n].compressed = (pmfResult.outcomes[k].compress = "ok")

\* C10 witness: of two images the first, whose compression failed, was
\* uploaded and has its photo object; the second, whose upload failed, has none
C10_Witness ==
    /\ pmfResult.returned
    /\ Len(pmfResult.files) = 2
    /\ pmfResult.outcomes[1] = [compress |-> "failed", upload |-> "ok"]
    /\ pmfResult.outcomes[2].upload = "uploadBytes_failed"
    /\ Names(pmfResult.photos) = <<pmfResult.files[1].name>>
    /\ ~pmfResult.photos[1].compressed

(***************************************************************************)
(* photo-manager.js: opening, leaving and deleting while calls are awaited *)
(***************************************************************************)

\* bound: the open, back and delete calls suspended at once
MaxManagerCalls == 2

otherThanManager ==
    <<pureVars, formVars, nextId, authVars, reportVars, uploadRuns, pmfResult,
      sessionVars, mailDocs, docxVars, appVars, homeVars>>

\* updateEvent after its updateDoc (storage.js 199-214): the document is
\* merged with the updates when the write went through, the localStorage
\* copy in both cases
updateEventApplied(eventId, updates, writeOk) ==
    /\ writeOk => eventId \in DOMAIN fsEvents
    /\ fsEvents' = IF writeOk
                   THEN [fsEvents EXCEPT ![eventId] = updates @@ @]
                   ELSE fsEvents
    /\ lsEvents' = updateEventInLocalStorage(eventId, updates)

\* a call of managerCalls is over
managerReturn(c) == managerCalls' = RemoveAt(managerCalls, c)

\* openEvent and openPhotoManager up to the await of getEventById (app.js
\* 407-410, photo-manager.js 361-366); the event cards are on the home view
managerOpen(eventId) ==
    /\ photoManagerState.currentEvent = NullId
    /\ Len(managerCalls) < MaxManagerCalls
    /\ managerCalls' = Append(managerCalls, [pc |-> "open", eventId |-> eventId])
    /\ io' = <<"firestore.getDoc">>
    /\ UNCHANGED <<toast, storeVars, photoManagerState, storageFiles, reported,
                   otherThanManager>>

\* openPhotoManager after getEventById (photo-manager.js 366-391)
managerOpened(c, readOk) ==
    LET opening == managerCalls[c]
        event == getEventById(opening.eventId, readOk) IN
    /\ opening.pc = "open"
    /\ managerReturn(c)
    /\ io' = <<>>
    /\ IF event = NullEvent
       THEN /\ toast' = Toast("Evento no encontrado", "error")
            /\ UNCHANGED photoManagerState
       ELSE /\ photoManagerState' =
                  [photoManagerState EXCEPT
                      !.currentEvent = opening.eventId,
                      !.photos = IF "fotos" \in DOMAIN event THEN event.fotos ELSE <<>>,
                      !.currentCategoryId =
                          IF Len(event.categorias) > 0 THEN event.categorias[1].id ELSE @]
            /\ UNCHANGED toast
    /\ UNCHANGED <<storeVars, storageFiles, reported, otherThanManager>>

\* handleBackToEvents up to the await of updateDoc (photo-manager.js
\* 713-716, 693-697; storage.js 194-202); the button is on the photo manager
backToEvents ==
    /\ photoManagerState.currentEvent # NullId
    /\ Len(managerCalls) < MaxManagerCalls
    /\ managerCalls' = Append(managerCalls,
          [pc |-> "back", saveTo |-> photoManagerState.currentEvent,
           saved |-> photoManagerState.photos])
    /\ io' = <<"firestore.updateDoc">>
    /\ UNCHANGED <<toast, storeVars, photoManagerState, storageFiles, reported,
                   otherThanManager>>

\* handleBackToEvents after savePhotosToEvent (photo-manager.js 716-728)
backSaved(c, writeOk) ==
    LET leaving == managerCalls[c] IN
    /\ leaving.pc = "back"
    /\ updateEventApplied(leaving.saveTo, [fotos |-> leaving.saved], writeOk)
    /\ photoManagerState' = [photoManagerState EXCEPT !.currentEvent = NullId,
                                                      !.currentCategoryId = 0,
                                                      !.photos = <<>>]
    /\ managerReturn(c)
    /\ io' = <<"localStorage.setItem">>
    /\ UNCHANGED <<toast, storageFiles, reported, otherThanManager>>

\* the ids of a photo list
photoIds(photos) == {photos[k].id : k \in 1..Len(photos)}

\* photos.filter(p => p.id !== photoId)
withoutPhoto(photos, photoId) ==
    SelectSeq(photos, LAMBDA photo : photo.id # photoId)

\* window.deletePhoto, confirmed, and removePhotoById up to the await of
\* deleteObject (photo-manager.js 661-668; photos.js 375-381, 65-72): the
\* photo list is read here, as the argument of removePhotoById
deletePhoto(photoId) ==
    /\ photoManagerState.currentEvent # NullId
    /\ photoId \in photoIds(photoManagerState.photos)
    /\ Len(managerCalls) < MaxManagerCalls
    /\ managerCalls' = Append(managerCalls,
          [pc |-> "removePhoto", photoId |-> photoId,
           photos |-> photoManagerState.photos])
    /\ io' = <<"storage.deleteObject">>
    /\ UNCHANGED <<toast, storeVars, photoManagerState, storageFiles, reported,
                   otherThanManager>>

\* deletePhoto after removePhotoById (photos.js 72-83; photo-manager.js
\* 668-671, 693-697): the filtered list that was read at the call replaces
\* photoManagerState.photos, then savePhotosToEvent up to its updateDoc; a
\* failed deleteObject is swallowed
deleteRemoved(c, ok) ==
    LET deleting == managerCalls[c]
        removed == CHOOSE k \in 1..Len(deleting.photos) :
                       deleting.photos[k].id = deleting.photoId
        photos == withoutPhoto(deleting.photos, deleting.photoId) IN
    /\ deleting.pc = "removePhoto"
    /\ storageFiles' = IF ok THEN storageFiles \ {deleting.photos[removed].storagePath}
                       ELSE storageFiles
    /\ photoManagerState' = [photoManagerState EXCEPT !.photos = photos]
    /\ IF photoManagerState.currentEvent = NullId
       THEN /\ toast' = Toast("Error al eliminar la foto", "error")
            /\ managerReturn(c)
            /\ io' = <<>>
       ELSE /\ managerCalls' = [managerCalls EXCEPT ![c] =
                  [pc |-> "deleteSave", photoId |-> deleting.photoId,
                   saveTo |-> photoManagerState.currentEvent, saved |-> photos]]
            /\ io' = <<"firestore.updateDoc">>
            /\ UNCHANGED toast
    /\ UNCHANGED <<storeVars, reported, otherThanManager>>

\* deletePhoto after savePhotosToEvent (photo-manager.js 671-683)
deleteSaved(c, writeOk) ==
    LET deleting == managerCalls[c] IN
    /\ deleting.pc = "deleteSave"
    /\ updateEventApplied(deleting.saveTo, [fotos |-> deleting.saved], writeOk)
    /\ managerReturn(c)
    /\ io' = <<"localStorage.setItem">>
    /\ IF leftMeanwhile
       THEN /\ toast' = Toast("Error al eliminar la foto", "error")
            /\ UNCHANGED reported
       ELSE /\ toast' = Toast("Foto eliminada", "success")
            /\ reported' = [reported EXCEPT !.deleted = @ \cup {deleting.photoId}]
    /\ UNCHANGED <<photoManagerState, storageFiles, otherThanManager>>

(***************************************************************************)
(* SpecManager: the photo manager opened and left over two stored events   *)
(***************************************************************************)

\* photo k of a stored event, uploaded to that event's folder earlier
ManagerPhoto(eventId, k) ==
    [ id |-> 10 + k, categoryId |-> 1, fileName |-> k, compressed |-> TRUE,
      storagePath |-> storagePath(eventId, 10 + k) ]

\* a stored event with n photos
ManagerEvent(eventId, n) ==
    [UploadEvent EXCEPT !.fotos = [k \in 1..n |-> ManagerPhoto(eventId, k)]]

\* the batches chosen in the photo manager: one image
OneImage == {<<UploadFile(1, "image/jpeg")>>}

\* the home view, with event 0 holding one photo and event 1 none;
\* generateId has handed out all its ids but one
ManagerInit ==
    /\ PureIdle
    /\ LaterIdle
    /\ SharedIdle
    /\ formState = EmptyForm
    /\ colorIndex = 0
    /\ nextId = MaxPhotoIds - 1
    /\ saveBtnDisabled = FALSE
    /\ formPending = NoPending
    /\ saves = 0
    /\ AuthIdle
    /\ ReportIdle
    /\ UploadIdle
    /\ fsEvents = (DocId(0) :> ManagerEvent(DocId(0), 1)) @@
                  (DocId(1) :> ManagerEvent(DocId(1), 0))
    /\ lsEvents = <<>>

ManagerNext ==
    \/ \E eventId \in {DocId(0), DocId(1)} : managerOpen(eventId)
    \/ \E c \in 1..Len(managerCalls), readOk \in BOOLEAN : managerOpened(c, readOk)
    \/ backToEvents
    \/ \E c \in 1..Len(managerCalls), writeOk \in BOOLEAN : backSaved(c, writeOk)
    \/ \E files \in OneImage : processAndAddPhoto(files)
    \/ \E r \in 1..Len(uploadRuns), compressOk \in BOOLEAN : uploadCompressed(r, compressOk)
    \/ \E r \in 1..Len(uploadRuns), ok \in BOOLEAN : uploadedBytes(r, ok)
    \/ \E r \in 1..Len(uploadRuns), ok \in BOOLEAN : gotDownloadURL(r, ok)
    \/ \E r \in 1..Len(uploadRuns), writeOk \in BOOLEAN : savedPhotos(r, writeOk)

SpecManager == ManagerInit /\ [][ManagerNext]_vars

(***************************************************************************)
(* C22: uploads and the event shown                                        *)
(***************************************************************************)

\* every photo of the list is stored under the folder of that event
StoredUnder(photos, eventId) ==
    \A k \in 1..Len(photos) : photos[k].storagePath[1] = eventId

\* C22 as stated: the photos uploaded while an event is open, stored under
\* that event's folder, are only ever added to that event's photo list: the
\* in-memory list of the event shown and the photo list of every document
\* hold only photos stored under their own event, whatever the user opens
\* or leaves while an upload is awaited.
C22_AsStated ==
    /\ photoManagerState.currentEvent # NullId =>
          StoredUnder(photoManagerState.photos, photoManagerState.currentEvent)
    /\ \A eventId \in DOMAIN fsEvents :
          "fotos" \in DOMAIN fsEvents[eventId] =>
              StoredUnder(fsEvents[eventId].fotos, eventId)

(***************************************************************************)
(* SpecOverlap: uploads and deletions overlapping on the event shown       *)
(***************************************************************************)

\* the photos the event holds at the start, the ones the grid shows for
\* deletion
OverlapPhotos == 2

\* openPhotoManager has loaded event 0 and selected its first category
\* (photo-manager.js 361-391); localStorage holds its copy of the event
OverlapInit ==
    /\ PureIdle
    /\ LaterIdle
    /\ SharedIdle
    /\ formState = EmptyForm
    /\ colorIndex = 0
    /\ nextId = MaxPhotoIds - 1
    /\ saveBtnDisabled = FALSE
    /\ formPending = NoPending
    /\ saves = 0
    /\ AuthIdle
    /\ ReportIdle
    /\ fsEvents = (DocId(0) :> ManagerEvent(DocId(0), OverlapPhotos))
    /\ lsEvents = <<[id |-> DocId(0)] @@ ManagerEvent(DocId(0), OverlapPhotos)>>
    /\ photoManagerState =
          [currentEvent |-> DocId(0), currentCategoryId |-> 1,
           photos |-> ManagerEvent(DocId(0), OverlapPhotos).fotos, isUploading |-> FALSE]
    /\ uploadRuns = <<>>
    /\ storageFiles = {storagePath(DocId(0), 10 + k) : k \in 1..OverlapPhotos}
    /\ pmfResult = NoResult
    /\ reported = NothingReported

OverlapNext ==
    \/ \E files \in OneImage : processAndAddPhoto(files)
    \/ \E r \in 1..Len(uploadRuns), compressOk \in BOOLEAN : uploadCompressed(r, compressOk)
    \/ \E r \in 1..Len(uploadRuns), ok \in BOOLEAN : uploadedBytes(r, ok)
    \/ \E r \in 1..Len(uploadRuns), ok \in BOOLEAN : gotDownloadURL(r, ok)
    \/ \E r \in 1..Len(uploadRuns), writeOk \in BOOLEAN : savedPhotos(r, writeOk)
    \/ \E k \in 1..OverlapPhotos : deletePhoto(10 + k)
    \/ \E c \in 1..Len(managerCalls), ok \in BOOLEAN : deleteRemoved(c, ok)
    \/ \E c \in 1..Len(managerCalls), writeOk \in BOOLEAN : deleteSaved(c, writeOk)

SpecOverlap == OverlapInit /\ [][OverlapNext]_vars

(***************************************************************************)
(* C23: overlapping photo operations                                       *)
(***************************************************************************)

\* no photo operation is awaiting
Quiet == uploadRuns = <<>> /\ managerCalls = <<>>

\* the list holds every photo reported uploaded that was not reported
\* deleted, and none reported deleted
Reflects(photos) ==
    /\ (reported.uploaded \ reported.deleted) \subseteq photoIds(photos)
    /\ reported.deleted \cap photoIds(photos) = {}

\* C23 as stated: once the overlapping photo operations of a session are
\* over, the in-memory photo list and the persisted one (the copy updateEvent
\* writes on both outcomes of its updateDoc) hold each photo reported as
\* uploaded and none reported as deleted.
C23_AsStated ==
    Quiet =>
        /\ Reflects(photoManagerState.photos)
        /\ Reflects(lsEvents[1].fotos)

(***************************************************************************)
(* storage.js, photo-manager.js, events.js: two sessions on one event.     *)
(* The sessions are two tabs of one browser: each has its own module       *)
(* state, both share the Firestore document and the localStorage list.     *)
(***************************************************************************)

\* bound: the saves a session starts
MaxSessionSaves == 1

Sessions == {1, 2}
SessionEventId == DocId(0)

\* mutant: the stored fields survive an update
updateDoc_KeepStored(stored, updates) == stored @@ updates

\* Firestore updateDoc: the fields given replace the stored ones, the other
\* stored fields stay (storage.js 199-202)
updateDoc(stored, updates) == updates @@ stored

\* the other frame of a session step
otherThanSessions ==
    <<pureVars, formVars, nextId, authVars, reportVars, uploadVars,
      mailDocs, docxVars, appVars, lastVars>>

\* openPhotoManager (photo-manager.js 361-398)
openPhotoManager(s, readOk) ==
    LET event == getEventById(SessionEventId, readOk) IN
    /\ io' = <<"firestore.getDoc">>
    /\ IF event = NullEvent
       THEN /\ toast' = Toast("Evento no encontrado", "error")
            /\ UNCHANGED sessions
       ELSE /\ sessions' = [sessions EXCEPT ![s].open = TRUE, ![s].photos = event.fotos]
            /\ UNCHANGED toast
    /\ UNCHANGED <<otherThanSessions, storeVars, writeLog>>

\* a save of session s starts: updateEvent up to its await (storage.js
\* 194-202)
sessionSave(s, origin, updates) ==
    [sessions[s] EXCEPT !.pending = [kind |-> origin, updates |-> updates],
                        !.n = @ + 1]

\* processAndAddPhoto from the new photos on (photo-manager.js 637-641,
\* savePhotosToEvent 693-697): the photo uploaded is appended to the photos
\* in memory and the whole list is saved
sessionAddPhoto(s) ==
    LET me == sessions[s]
        photos == Append(me.photos, [id |-> <<s, me.n>>, categoryId |-> 1]) IN
    /\ me.open
    /\ me.pending = NoPending
    /\ me.n < MaxSessionSaves
    /\ sessions' = [sessions EXCEPT
                       ![s] = [sessionSave(s, "photos", [fotos |-> photos])
                                  EXCEPT !.photos = photos]]
    /\ io' = <<"firestore.updateDoc">>
    /\ UNCHANGED <<otherThanSessions, storeVars, writeLog, toast>>

\* handleBackToEvents up to its await (photo-manager.js 713-717): the photos
\* in memory are saved before the manager is left
handleBackToEvents(s) ==
    LET me == sessions[s] IN
    /\ me.open
    /\ me.pending = NoPending
    /\ me.n < MaxSessionSaves
    /\ sessions' = [sessions EXCEPT ![s] = sessionSave(s, "back", [fotos |-> me.photos])]
    /\ io' = <<"firestore.updateDoc">>
    /\ UNCHANGED <<otherThanSessions, storeVars, writeLog, toast>>

\* loadEventForEdit in session s (events.js 432-476)
sessionLoadEventForEdit(s, readOk) ==
    LET event == getEventById(SessionEventId, readOk) IN
    /\ io' = <<"firestore.getDoc">>
    /\ IF event = NullEvent
       THEN /\ toast' = Toast("Evento no encontrado", "error")
            /\ UNCHANGED sessions
       ELSE /\ sessions' = [sessions EXCEPT ![s].editing = TRUE,
                                            ![s].categorias = event.categorias]
            /\ UNCHANGED toast
    /\ UNCHANGED <<otherThanSessions, storeVars, writeLog>>

\* handleFormSubmit in edit mode up to its await (events.js 310-354)
sessionSubmitEdit(s, nombreEvento) ==
    LET me == sessions[s] IN
    /\ me.editing
    /\ me.pending = NoPending
    /\ me.n < MaxSessionSaves
    /\ sessions' = [sessions EXCEPT
                       ![s] = sessionSave(s, "form",
                                 [nombre |-> nombreEvento, responsableId |-> "u1",
                                  categorias |-> me.categorias])]
    /\ io' = <<"firestore.updateDoc">>
    /\ UNCHANGED <<otherThanSessions, storeVars, writeLog, toast>>

\* updateEvent after updateDoc (storage.js 199-214), then the rest of the
\* handler that saved: processAndAddPhoto (photo-manager.js 643-647),
\* handleBackToEvents (719-728) or updateExistingEvent (events.js 406-409)
sessionUpdateDone(s, writeOk) ==
    LET me == sessions[s]
        updates == me.pending.updates IN
    /\ me.pending # NoPending
    /\ writeOk => SessionEventId \in DOMAIN fsEvents
    /\ fsEvents' = IF writeOk
                   THEN [fsEvents EXCEPT ![SessionEventId] = updateDoc(@, updates)]
                   ELSE fsEvents
    /\ writeLog' = IF writeOk
                   THEN Append(writeLog, [session |-> s, updates |-> updates])
                   ELSE writeLog
    /\ lsEvents' = updateEventInLocalStorage(SessionEventId, updates)
    /\ io' = <<"localStorage.setItem">>
    /\ toast' = CASE me.pending.kind = "photos" ->
                        Toast("foto(s) subida(s) correctamente", "success")
                  [] me.pending.kind = "form" ->
                        Toast("Evento actualizado exitosamente", "success")
                  [] OTHER -> toast
    /\ sessions' = [sessions EXCEPT
                       ![s] = CASE me.pending.kind = "back" ->
                                     [me EXCEPT !.pending = NoPending, !.open = FALSE,
                                                !.photos = <<>>]
                                [] me.pending.kind = "form" ->
                                     [me EXCEPT !.pending = NoPending, !.editing = FALSE,
                                                !.categorias = <<>>]
                                [] OTHER -> [me EXCEPT !.pending = NoPending]]
    /\ UNCHANGED otherThanSessions

(***************************************************************************)
(* SpecSessions: two sessions over one stored event                        *)
(***************************************************************************)

SessionsInit ==
    /\ PureIdle
    /\ SharedIdle
    /\ FormIdle
    /\ AuthIdle
    /\ ReportIdle
    /\ UploadIdle
    /\ MailIdle
    /\ LastIdle
    /\ DocxIdle
    /\ AppIdle
    /\ nextId = 0
    /\ fsEvents = (SessionEventId :> UploadEvent)
    /\ lsEvents = <<[id |-> SessionEventId] @@ UploadEvent>>
    /\ sessions = [s \in Sessions |-> ClosedSession]
    /\ writeLog = <<>>

\* what session s types into the name field
SessionNameInputs(s) == IF s = 1 THEN {<<"f">>} ELSE {<<"g">>}

SessionsNext ==
    \/ \E s \in Sessions, readOk \in BOOLEAN : openPhotoManager(s, readOk)
    \/ \E s \in Sessions : sessionAddPhoto(s)
    \/ \E s \in Sessions : handleBackToEvents(s)
    \/ \E s \in Sessions, readOk \in BOOLEAN : sessionLoadEventForEdit(s, readOk)
    \/ \E s \in Sessions : \E nombreEvento \in SessionNameInputs(s) :
          sessionSubmitEdit(s, nombreEvento)
    \/ \E s \in Sessions, writeOk \in BOOLEAN : sessionUpdateDone(s, writeOk)

SpecSessions == SessionsInit /\ [][SessionsNext]_vars

(***************************************************************************)
(* C12: concurrent saves of one event                                      *)
(***************************************************************************)

\* the writes applied so far that gave field f
WritesOf(f) == {k \in 1..Len(writeLog) : f \in DOMAIN writeLog[k].updates}

\* the value of field f that the write applied last gave, the stored one of
\* the start when no write gave it
LastWritten(f) ==
    IF WritesOf(f) = {} THEN UploadEvent[f]
    ELSE writeLog[CHOOSE k \in WritesOf(f) : \A j \in WritesOf(f) : j <= k].updates[f]

\* C12: every field of the stored event holds the value of the write applied
\* last among those that gave it, whichever session it came from and whatever
\* that session had loaded; and the step that applies a session's write
\* stores all its fields and shows no error, even when the stored photo list
\* is no longer the one the session's copy was built on.
C12_LastWriteWins ==
    /\ [](\A f \in DOMAIN fsEvents[SessionEventId] :
             fsEvents[SessionEventId][f] = LastWritten(f))
    /\ [][\A s \in Sessions :
             sessionUpdateDone(s, TRUE) =>
                /\ \A f \in DOMAIN sessions[s].pending.updates :
                      fsEvents'[SessionEventId][f] = sessions[s].pending.updates[f]
                /\ toast'.type # "error"]_vars

\* C12 witness: both sessions saved a photo list, session 2 last and from a
\* copy loaded before session 1's save: the stored list holds session 2's
\* photo and has lost the photo session 1 had saved
C12_Witness ==
    /\ Len(writeLog) = 2
    /\ writeLog[1].session = 1
    /\ writeLog[2].session = 2
    /\ writeLog[1].updates = [fotos |-> <<[id |-> <<1, 0>>, categoryId |-> 1]>>]
    /\ writeLog[2].updates = [fotos |-> <<[id |-> <<2, 0>>, categoryId |-> 1]>>]
    /\ fsEvents[SessionEventId].fotos = <<[id |-> <<2, 0>>, categoryId |-> 1]>>

(***************************************************************************)
(* email-sender.js: sendReportByEmail (first definition, lines 29-79)      *)
(***************************************************************************)

\* bounds: the recipients of a call and the documents of the mail collection
MaxRecipients == 2
MaxMails == 2

\* an error thrown out of an async function
Thrown(message) == [done |-> TRUE, thrown |-> message]

\* mutant: every recipient is kept
validEmails_All(recipients) == recipients

\* recipients.filter(email => isValidEmail(email)) (email-sender.js 39)
validEmails(recipients) == SelectSeq(recipients, isValidEmail)

\* the frame of a step of sendReportByEmail
otherThanMail ==
    <<storeVars, formVars, nextId, authVars, reportVars, uploadVars,
      sessionVars, docxVars, appVars, lastVars>>

\* sendReportByEmail up to its first await (email-sender.js 29-47)
sendReportByEmail(recipients) ==
    /\ call = NoCall \/ ret # Pending
    /\ Len(mailDocs) < MaxMails
    /\ IF Len(recipients) = 0
       THEN /\ call' = [fn |-> "sendReportByEmail", recipients |-> recipients, pc |-> "done"]
            /\ ret' = Thrown("Debes agregar al menos un destinatario")
            /\ io' = <<>>
            /\ UNCHANGED toast
       ELSE IF Len(validEmails(recipients)) = 0
       THEN /\ call' = [fn |-> "sendReportByEmail", recipients |-> recipients, pc |-> "done"]
            /\ ret' = Thrown("Ningun email es valido")
            /\ io' = <<>>
            /\ UNCHANGED toast
       ELSE /\ call' = [fn |-> "sendReportByEmail", recipients |-> recipients,
                        pc |-> "blobToBase64", to |-> validEmails(recipients)]
            /\ ret' = Pending
            /\ toast' = Toast("Preparando email...", "info")
            /\ io' = <<"FileReader.readAsDataURL">>
    /\ UNCHANGED <<otherThanMail, mailDocs>>

\* sendReportByEmail after blobToBase64 (email-sender.js 47-68, 158-165)
mailEncoded(ok) ==
    /\ call # NoCall
    /\ call.fn = "sendReportByEmail"
    /\ call.pc = "blobToBase64"
    /\ IF ok
       THEN /\ call' = [call EXCEPT !.pc = "addDoc"]
            /\ io' = <<"firestore.addDoc">>
            /\ UNCHANGED ret
       ELSE /\ call' = [call EXCEPT !.pc = "done"]
            /\ ret' = Thrown("FileReader error")
            /\ io' = <<>>
    /\ UNCHANGED <<otherThanMail, mailDocs, toast>>

\* sendReportByEmail after addDoc (email-sender.js 68-78)
mailAdded(ok) ==
    /\ call # NoCall
    /\ call.fn = "sendReportByEmail"
    /\ call.pc = "addDoc"
    /\ call' = [call EXCEPT !.pc = "done"]
    /\ io' = <<>>
    /\ IF ok
       THEN /\ mailDocs' = Append(mailDocs, [to |-> call.to])
            /\ ret' = Returned(TRUE)
       ELSE /\ mailDocs' = mailDocs
            /\ ret' = Thrown("addDoc error")
    /\ UNCHANGED <<otherThanMail, toast>>

(***************************************************************************)
(* SpecMail: calls of sendReportByEmail, one after the other               *)
(***************************************************************************)

\* the addresses a recipient list is made of: one that matches the pattern,
\* one with no dot in the domain, one with a leading blank
RecipientEmails ==
    { <<"a", "@", "b", ".", "c">>, <<"a", "@", "b">>, <<" ", "a", "@", "b", ".", "c">> }

RecipientInputs ==
    UNION { [1..n -> RecipientEmails] : n \in 0..MaxRecipients }

MailInit ==
    /\ PureIdle
    /\ SharedIdle
    /\ StoreIdle
    /\ FormIdle
    /\ AuthIdle
    /\ ReportIdle
    /\ UploadIdle
    /\ SessionsIdle
    /\ MailIdle
    /\ LastIdle
    /\ DocxIdle
    /\ AppIdle
    /\ nextId = 0

MailNext ==
    \/ \E recipients \in RecipientInputs : sendReportByEmail(recipients)
    \/ \E ok \in BOOLEAN : mailEncoded(ok)
    \/ \E ok \in BOOLEAN : mailAdded(ok)

SpecMail == MailInit /\ [][MailNext]_vars

(***************************************************************************)
(* C13: the mail document of sendReportByEmail                             *)
(***************************************************************************)

\* the recipients that match the pattern, in their order, stated by position
Matching(recipients) ==
    LET keep == {i \in 1..Len(recipients) : MatchesBasicPattern(recipients[i])}
        nth(k) == CHOOSE i \in keep : Cardinality({j \in keep : j < i}) = k - 1
    IN  [k \in 1..Cardinality(keep) |-> recipients[nth(k)]]

\* C13: a step inserts into the mail collection only as the last step of a
\* call, which then returns true; it inserts one document, whose recipient
\* list is the non-empty list of the call's recipients that match the e-mail
\* pattern; a call given no recipient, or none that matches, throws in its
\* first step and inserts nothing; and a call returns true only in a step
\* that inserts.
C13_MailDocument ==
    [][/\ mailDocs' # mailDocs =>
             /\ mailDocs' = Append(mailDocs, [to |-> Matching(call.recipients)])
             /\ Matching(call.recipients) # <<>>
             /\ ret = Pending /\ ret' = Returned(TRUE)
       /\ \A recipients \in RecipientInputs :
             (Matching(recipients) = <<>> /\ sendReportByEmail(recipients)) =>
                /\ "thrown" \in DOMAIN ret'
                /\ mailDocs' = mailDocs
                /\ io' = <<>>
       /\ (ret' = Returned(TRUE) /\ ret # ret') =>
             Len(mailDocs') = Len(mailDocs) + 1]_vars

\* C13 witness: a call given a matching and a non-matching recipient has
\* returned true and the last mail document names the matching one alone
C13_Witness ==
    /\ ret = Returned(TRUE)
    /\ call.fn = "sendReportByEmail"
    /\ Len(call.recipients) = 2
    /\ mailDocs # <<>>
    /\ Len(mailDocs[Len(mailDocs)].to) = 1
    /\ mailDocs[Len(mailDocs)].to = Matching(call.recipients)

(***************************************************************************)
(* SpecSection: createCategorySection applied to enumerated photo lists    *)
(* and image maps                                                          *)
(***************************************************************************)

\* bound: the photos of the category
MaxSectionPhotos == 5

\* the photos of category 1, in list order, and the maps downloadAllImages
\* can hand over: an entry for any of them
SectionPhotos(n) == [k \in 1..n |-> ReportPhoto(k, 1)]
SectionBuffers(n) ==
    UNION { [ids -> {"image"}] : ids \in SUBSET {ReportPhoto(k, 1).id : k \in 1..n} }

otherThanSection ==
    <<sharedVars, storeVars, formVars, nextId, authVars, reportVars, uploadVars, laterVars>>

SectionInit ==
    /\ \E n \in 1..MaxSectionPhotos :
          call \in [fn : {"createCategorySection"}, photos : {SectionPhotos(n)},
                    imageBuffers : SectionBuffers(n)]
    /\ ret = Pending
    /\ SharedIdle
    /\ StoreIdle
    /\ FormIdle
    /\ AuthIdle
    /\ ReportIdle
    /\ UploadIdle
    /\ LaterIdle
    /\ nextId = 0

SectionCall ==
    /\ ret = Pending
    /\ call.fn = "createCategorySection"
    /\ ret' = Returned(createCategorySection(ReportCategory(1), call.photos, call.imageBuffers))
    /\ UNCHANGED <<call, otherThanSection>>

SpecSection == SectionInit /\ [][SectionCall]_vars

(***************************************************************************)
(* C14 and C18: the rows of a category section                             *)
(***************************************************************************)

\* the least number of groups of three that hold n photos
CeilThirds(n) == CHOOSE r \in 0..n : 3 * r >= n /\ 3 * (r - 1) < n

\* the positions (row, cell) of the image cells of photo id in the rows
ImageCellsOf(rows, id) ==
    { <<r, c>> \in (1..Len(rows)) \X (1..3) :
         /\ c <= Len(rows[r])
         /\ rows[r][c].kind = "image"
         /\ rows[r][c].photoId = id }

\* the photo ids of the image cells of a row, in cell order
ImageIdsOf(row) ==
    LET cells == SelectSeq(row, LAMBDA cell : cell.kind = "image")
    IN  [c \in 1..Len(cells) |-> cells[c].photoId]

\* the ids of the k-th group of three photos that have an entry in the map,
\* in list order, stated by position
GroupIds(photos, imageBuffers, r) ==
    LET keep == {k \in (3 * r - 2)..(3 * r) :
                    k <= Len(photos) /\ photos[k].id \in DOMAIN imageBuffers}
        nth(j) == CHOOSE k \in keep : Cardinality({m \in keep : m < k}) = j - 1
    IN  [j \in 1..Cardinality(keep) |-> photos[nth(j)].id]

C18_AsStated ==
    (ret # Pending /\ call.fn = "createCategorySection") =>
        \A r \in 1..Len(ret.value.rows) : Len(ret.value.rows[r]) = 3

(***************************************************************************)
(* SpecColors: createCategory, createCategoryFromCatalog and               *)
(* resetColorIndex of categories.js (first definition), called one after   *)
(* the other.  call.k counts the custom categories created since the last  *)
(* resetColorIndex.                                                        *)
(***************************************************************************)

\* bounds: the custom categories created between two resets, and the ids
\* handed out
MaxCustom == 9
MaxColorIds == 10

otherThanColors ==
    <<sharedVars, storeVars, formState, saveBtnDisabled, formPending, saves,
      authVars, reportVars, uploadVars, laterVars>>

\* createCategory(nombre) with no color (categories.js 55-71, getNextColor
\* 187-191)
createCustomCategory(nombre) ==
    /\ nextId < MaxColorIds
    /\ call.k < MaxCustom
    /\ IF trim(nombre) = <<>>
       THEN /\ call' = [fn |-> "createCategory", k |-> call.k]
            /\ ret' = Thrown("El nombre de la categoria es requerido")
            /\ UNCHANGED <<colorIndex, nextId>>
       ELSE /\ call' = [fn |-> "createCategory", k |-> call.k + 1]
            /\ ret' = Returned(createCategory(nombre, Null))
            /\ colorIndex' = colorIndexAfterNext
            /\ nextId' = nextId + 1
    /\ UNCHANGED otherThanColors

\* createCategoryFromCatalog(nombre) (categories.js 78-86)
createCategoryFromCatalog(nombre) ==
    LET catalogItem == catalogFind(nombre) IN
    /\ nextId < MaxColorIds
    /\ call' = [fn |-> "createCategoryFromCatalog", k |-> call.k]
    /\ IF catalogItem = NotFound
       THEN /\ ret' = Thrown("Categoria no encontrada en el catalogo")
            /\ UNCHANGED nextId
       ELSE /\ ret' = Returned(createCategory(catalogItem.nombre, catalogItem.color))
            /\ nextId' = nextId + 1
    /\ UNCHANGED <<colorIndex, otherThanColors>>

\* resetColorIndex (categories.js 196-198)
resetColorIndex ==
    /\ call' = [fn |-> "resetColorIndex", k |-> 0]
    /\ ret' = Pending
    /\ colorIndex' = 0
    /\ UNCHANGED <<nextId, otherThanColors>>

ColorsInit ==
    /\ call = [fn |-> "none", k |-> 0]
    /\ ret = Pending
    /\ SharedIdle
    /\ StoreIdle
    /\ FormIdle
    /\ AuthIdle
    /\ ReportIdle
    /\ UploadIdle
    /\ LaterIdle

ColorsNext ==
    \/ \E nombre \in {<<" ">>, <<"a", "b">>} : createCustomCategory(nombre)
    \/ \E nombre \in {<<"A", "&", "B">>, <<"A", "/", "V">>, <<"a", "b">>} :
          createCategoryFromCatalog(nombre)
    \/ resetColorIndex

SpecColors == ColorsInit /\ [][ColorsNext]_vars

(***************************************************************************)
(* C15: the colors of the categories                                       *)
(***************************************************************************)

\* the palette has eight colors
PaletteSize == 8

\* the color of the catalog entry of that name
CatalogColor(nombre) ==
    LET i == CHOOSE j \in 1..Len(CATALOG_CATEGORIES) : CATALOG_CATEGORIES[j].nombre = nombre
    IN  CATALOG_CATEGORIES[i].color

\* C15: the k-th custom category created since the last resetColorIndex has
\* palette entry (k-1) mod 8 of the 8-color palette; a category created from
\* the catalog has its catalog color, and its creation leaves the color
\* index where it was.
C15_RoundRobin ==
    /\ [](/\ Len(ADDITIONAL_COLORS) = PaletteSize
          /\ (call.fn = "createCategory" /\ ret # Pending /\ "value" \in DOMAIN ret) =>
                /\ ret.value.color = ADDITIONAL_COLORS[((call.k - 1) % PaletteSize) + 1]
                /\ ret.value.isCustom
          /\ (call.fn = "createCategoryFromCatalog" /\ "value" \in DOMAIN ret) =>
                /\ ret.value.color = CatalogColor(ret.value.nombre)
                /\ ~ret.value.isCustom)
    /\ [][\A nombre \in {<<"A", "&", "B">>, <<"A", "/", "V">>, <<"a", "b">>} :
             createCategoryFromCatalog(nombre) => colorIndex' = colorIndex]_vars

\* C15 witness: the ninth custom category since the last reset was created,
\* after a catalog category in between, and has the first palette color again
C15_Witness ==
    /\ call.fn = "createCategory"
    /\ "value" \in DOMAIN ret
    /\ call.k = PaletteSize + 1
    /\ nextId = PaletteSize + 2
    /\ ret.value.color = ADDITIONAL_COLORS[1]

(***************************************************************************)
(* reports.js: waitForDocx, one action per synchronous stretch.  The time  *)
(* is Date.now() - t0 in milliseconds; a timer fires after its interval or *)
(* later.                                                                  *)
(***************************************************************************)

\* the default arguments (reports.js 19)
maxMs == 6000
intervalMs == 150

\* how late a timer can fire
LateInputs == {0, intervalMs}

\* the largest time the clock of the model shows
MaxElapsed == maxMs + 2 * intervalMs

\* mutant: the wait never times out
timedOut_Never(elapsed) == FALSE

\* Date.now() - t0 > maxMs (reports.js 23)
timedOut(elapsed) == elapsed > maxMs

otherThanDocx ==
    <<pureVars, sharedVars, storeVars, formVars, nextId, authVars, reportVars,
      uploadVars, sessionVars, mailDocs, appVars, lastVars>>

\* the <script> of the docx library finishes loading: window.docx is defined
docxScriptLoaded ==
    /\ ~windowDocx
    /\ windowDocx' = TRUE
    /\ UNCHANGED <<docxWait, otherThanDocx>>

\* waitForDocx from the call to the first await (reports.js 19-22)
waitForDocx ==
    /\ docxWait.pc = "idle"
    /\ docxWait' = [pc |-> IF windowDocx THEN "returned" ELSE "sleeping", elapsed |-> 0]
    /\ UNCHANGED <<windowDocx, otherThanDocx>>

\* the timer of the loop fires: the time is tested, then the loop condition
\* (reports.js 21-26)
docxTimerFired(late) ==
    LET now == IF docxWait.elapsed + intervalMs + late > MaxElapsed
               THEN MaxElapsed
               ELSE docxWait.elapsed + intervalMs + late IN
    /\ docxWait.pc = "sleeping"
    /\ docxWait' = [pc |-> IF timedOut(now) THEN "thrown"
                           ELSE IF windowDocx THEN "returned"
                           ELSE "sleeping",
                    elapsed |-> now]
    /\ UNCHANGED <<windowDocx, otherThanDocx>>

(***************************************************************************)
(* SpecDocx: one call of waitForDocx while the script may finish loading;  *)
(* a timer that is set fires                                               *)
(***************************************************************************)

DocxInit ==
    /\ PureIdle
    /\ SharedIdle
    /\ StoreIdle
    /\ FormIdle
    /\ AuthIdle
    /\ ReportIdle
    /\ UploadIdle
    /\ SessionsIdle
    /\ MailIdle
    /\ LastIdle
    /\ AppIdle
    /\ nextId = 0
    /\ windowDocx \in BOOLEAN
    /\ docxWait = [pc |-> "idle", elapsed |-> 0]

DocxNext ==
    \/ docxScriptLoaded
    \/ waitForDocx
    \/ \E late \in LateInputs : docxTimerFired(late)

SpecDocx ==
    /\ DocxInit
    /\ [][DocxNext]_vars
    /\ WF_vars(\E late \in LateInputs : docxTimerFired(late))

(***************************************************************************)
(* C16: waitForDocx terminates                                             *)
(***************************************************************************)

\* C16: a call of waitForDocx that is waiting ends, returning or throwing;
\* it returns only in a step whose check finds window.docx defined; it
\* throws only when the elapsed time exceeds maxMs; each wait lasts at least
\* intervalMs; and while the library has not appeared it does not return.
C16_WaitTerminates ==
    /\ (docxWait.pc = "sleeping") ~> (docxWait.pc \in {"returned", "thrown"})
    /\ [][/\ (docxWait'.pc = "returned" /\ docxWait.pc # "returned") => windowDocx
          /\ (docxWait'.pc = "thrown" /\ docxWait.pc # "thrown") =>
                docxWait'.elapsed > maxMs
          /\ docxWait.pc = "sleeping" /\ docxWait' # docxWait =>
                docxWait'.elapsed >= docxWait.elapsed + intervalMs]_vars
    /\ [](docxWait.pc \in {"returned", "thrown"} /\ ~windowDocx =>
             docxWait.pc = "thrown")

\* C16 witness: the library never appeared and the call has thrown, after
\* polls that were all on time: at 6150 ms, the 41st poll
C16_Witness ==
    /\ ~windowDocx
    /\ docxWait.pc = "thrown"
    /\ docxWait.elapsed = maxMs + intervalMs

(***************************************************************************)
(* email-sender.js: parseMultipleEmails, both definitions                  *)
(***************************************************************************)

\* bound: the length of the string parsed
MaxParseLen == 3

\* the characters the class of the split pattern matches: /[,;\\s]+/ in the
\* first definition (email-sender.js 189), where \\ is a backslash and s the
\* letter; /[,;\s]+/ in the second (566), where \s is a whitespace
Separators == {",", ";", "\\", "s"}
SeparatorsV2 == {",", ";", " "}

\* String.prototype.split on a pattern class+ : the pieces between the runs
\* of separators, the empty piece before a leading run and after a trailing
\* one included; cur is the piece being read
RECURSIVE splitFrom(_, _, _, _)
splitFrom(str, i, cur, seps) ==
    IF i > Len(str) THEN <<cur>>
    ELSE IF str[i] \in seps
    THEN IF i > 1 /\ str[i - 1] \in seps
         THEN splitFrom(str, i + 1, cur, seps)
         ELSE <<cur>> \o splitFrom(str, i + 1, <<>>, seps)
    ELSE splitFrom(str, i + 1, Append(cur, str[i]), seps)

\* .map(email => email.trim()).filter(email => email.length > 0)
trimmedNonEmpty(pieces) ==
    SelectSeq([k \in 1..Len(pieces) |-> trim(pieces[k])], LAMBDA email : Len(email) > 0)

\* parseMultipleEmails, first definition (email-sender.js 184-194)
parseMultipleEmails(emailsString) ==
    IF emailsString = <<>> THEN <<>>
    ELSE trimmedNonEmpty(splitFrom(emailsString, 1, <<>>, Separators))

\* parseMultipleEmails, second definition (email-sender.js 561-571)
parseMultipleEmailsV2(emailsString) ==
    IF emailsString = <<>> THEN <<>>
    ELSE trimmedNonEmpty(splitFrom(emailsString, 1, <<>>, SeparatorsV2))

(***************************************************************************)
(* SpecParse: parseMultipleEmails applied to enumerated strings            *)
(***************************************************************************)

ParseChars == {"a", "s", ",", ";", " "}
ParseInputs == UNION { [1..n -> ParseChars] : n \in 0..MaxParseLen }

ParseInit ==
    /\ call \in [fn : {"parseMultipleEmails", "parseMultipleEmailsV2"},
                 emailsString : ParseInputs]
    /\ ret = Pending
    /\ SharedIdle
    /\ StoreIdle
    /\ FormIdle
    /\ AuthIdle
    /\ ReportIdle
    /\ UploadIdle
    /\ LaterIdle
    /\ nextId = 0

ParseCall ==
    /\ ret = Pending
    /\ call.fn = "parseMultipleEmails"
    /\ ret' = Returned(parseMultipleEmails(call.emailsString))
    /\ UNCHANGED <<call, otherThanSection>>

ParseCallV2 ==
    /\ ret = Pending
    /\ call.fn = "parseMultipleEmailsV2"
    /\ ret' = Returned(parseMultipleEmailsV2(call.emailsString))
    /\ UNCHANGED <<call, otherThanSection>>

ParseNext == ParseCall \/ ParseCallV2

SpecParse == ParseInit /\ [][ParseNext]_vars

(***************************************************************************)
(* C17: the tokens of parseMultipleEmails                                  *)
(***************************************************************************)

\* a comma, a semicolon or a whitespace
IsListSeparator(c) == c \in {",", ";"} \/ IsWhitespace(c)

\* the maximal runs of characters of str that are not separators, in their
\* order, stated by position: the run that starts at position lo
TokenStarts(str) ==
    {lo \in 1..Len(str) :
        ~IsListSeparator(str[lo]) /\ (lo = 1 \/ IsListSeparator(str[lo - 1]))}
TokenAt(str, lo) ==
    LET hi == CHOOSE h \in lo..Len(str) :
                 /\ \A k \in lo..h : ~IsListSeparator(str[k])
                 /\ (h = Len(str) \/ IsListSeparator(str[h + 1]))
    IN  SubSeq(str, lo, hi)
Tokens(str) ==
    LET starts == TokenStarts(str)
        nth(k) == CHOOSE lo \in starts : Cardinality({m \in starts : m < lo}) = k - 1
    IN  [k \in 1..Cardinality(starts) |-> TokenAt(str, nth(k))]

\* C17 as stated: each definition of parseMultipleEmails returns the tokens
\* of its input between runs of commas, semicolons and whitespace, in input
\* order (none for the empty input), and no other character splits a token.
C17_AsStated ==
    (ret # Pending /\ call.fn \in {"parseMultipleEmails", "parseMultipleEmailsV2"}) =>
        ret.value = Tokens(call.emailsString)

(***************************************************************************)
(* storage.js: createEvent, one action per synchronous stretch.  The       *)
(* localStorage calls do not throw here, as in the rest of the model.      *)
(***************************************************************************)

\* bound: the calls of createEvent
MaxCreates == 2

\* the document createEvent sends to addDoc (storage.js 101-109)
evento(sent) ==
    [ nombre        |-> sent.nombre,
      responsableId |-> sent.responsableId,
      categorias    |-> IF "categorias" \in DOMAIN sent
                        THEN sent.categorias ELSE <<>>,
      fotos         |-> <<>> ]

\* mutant: the fallback event is given a document id
withLocalId_Doc(record, n) ==
    IF "id" \in DOMAIN record THEN record ELSE [id |-> DocId(n)] @@ record

\* saveEventToLocalStorage: if (!evento.id) evento.id = `local-${Date.now()}`
\* (storage.js 254-256)
withLocalId(record, n) ==
    IF "id" \in DOMAIN record THEN record ELSE [id |-> LocalId(n)] @@ record

otherThanStorage ==
    <<formState, colorIndex, saveBtnDisabled, formPending, nextId, toast,
      authVars, reportVars, uploadVars, laterVars>>

\* createEvent up to its await (storage.js 97-111)
createEvent(sent) ==
    /\ call = NoCall \/ ret # Pending
    /\ saves < MaxCreates
    /\ saves' = saves + 1
    /\ call' = [fn |-> "createEvent", eventData |-> sent]
    /\ ret' = Pending
    /\ io' = <<"firestore.addDoc">>
    /\ UNCHANGED <<otherThanStorage, storeVars>>

\* createEvent after addDoc (storage.js 111-123, saveEventToLocalStorage
\* 251-266)
createEventAdded(writeOk) ==
    LET docId == DocId(saves)
        stored == IF writeOk
                  THEN withLocalId([id |-> docId] @@ evento(call.eventData), saves)
                  ELSE withLocalId(call.eventData, saves) IN
    /\ call # NoCall
    /\ call.fn = "createEvent"
    /\ ret = Pending
    /\ fsEvents' = IF writeOk
                   THEN fsEvents @@ (docId :> evento(call.eventData))
                   ELSE fsEvents
    /\ lsEvents' = Append(lsEvents, stored)
    /\ io' = <<"localStorage.setItem">>
    /\ ret' = Returned(IF writeOk THEN docId ELSE stored.id)
    /\ UNCHANGED <<otherThanStorage, call, saves>>

(***************************************************************************)
(* SpecStorage: calls of createEvent with what the event form sends        *)
(***************************************************************************)

\* handleFormSubmit's eventData (events.js 337-342), and one without a
\* category list
EventDataInputs ==
    [nombre : {<<"e">>, <<"f">>}, responsableId : {"u1"},
     categorias : {<<>>, <<SavedCategory>>}]
    \cup [nombre : {<<"e">>}, responsableId : {"u1"}]

StorageInit ==
    /\ PureIdle
    /\ SharedIdle
    /\ FormIdle
    /\ AuthIdle
    /\ ReportIdle
    /\ UploadIdle
    /\ LaterIdle
    /\ nextId = 0
    /\ \/ StoreIdle
       \/ /\ fsEvents = (DocId(0) :> SavedEvent)
          /\ lsEvents = <<[id |-> DocId(0)] @@ SavedEvent>>

StorageNext ==
    \/ \E sent \in EventDataInputs : createEvent(sent)
    \/ \E writeOk \in BOOLEAN : createEventAdded(writeOk)

SpecStorage == StorageInit /\ [][StorageNext]_vars

(***************************************************************************)
(* C19: createEvent and its localStorage fallback                          *)
(***************************************************************************)

MaxAuthEvents == 5

\* mutant: the flag is not read
mayInitialize_NoFlag(user) == user # NoUser

\* user && !isInitialized (app.js 56)
mayInitialize(user) == user # NoUser /\ ~isInitialized

otherThanApp ==
    <<ret, sharedVars, storeVars, formVars, nextId, authVars, reportVars,
      uploadVars, sessionVars, mailDocs, docxVars, lastVars>>

\* the callback of onAuthStateChanged (app.js 55-65), with initializeApp
\* (71-104) and redirectToLogin (492-497)
authStateChanged(user) ==
    /\ location = "app.html"
    /\ Len(call.fired) < MaxAuthEvents
    /\ call' = [call EXCEPT !.fired = Append(@, user)]
    /\ IF mayInitialize(user)
       THEN /\ appCurrentUser' = user
            /\ isInitialized' = TRUE
            /\ initRuns' = initRuns + 1
            /\ UNCHANGED location
       ELSE IF user = NoUser
       THEN /\ location' = IF ~isInitialized THEN "index.html" ELSE location
            /\ UNCHANGED <<appCurrentUser, isInitialized, initRuns>>
       ELSE UNCHANGED appVars
    /\ UNCHANGED otherThanApp

(***************************************************************************)
(* SpecApp: one load of app.html                                           *)
(***************************************************************************)

OtherEmail == <<"b", "@", "b", ".", "c">>
AppUsers == {NoUser, KnownEmail, OtherEmail}

AppInit ==
    /\ call = [fn |-> "onAuthStateChanged", fired |-> <<>>]
    /\ ret = Pending
    /\ SharedIdle
    /\ StoreIdle
    /\ FormIdle
    /\ AuthIdle
    /\ ReportIdle
    /\ UploadIdle
    /\ LaterIdle
    /\ nextId = 0

AppNext == \E user \in AppUsers : authStateChanged(user)

SpecApp == AppInit /\ [][AppNext]_vars

(***************************************************************************)
(* C20: initializeApp runs at most once                                    *)
(***************************************************************************)

\* the times the callback has fired with a signed-in user
SignedInFirings == {k \in 1..Len(call.fired) : call.fired[k] # NoUser}

\* C20: initializeApp has run at most once on the page, and exactly once if
\* the callback has fired with a signed-in user while the page was shown,
\* whoever the later users are; and a firing with no user before the
\* initialization redirects to index.html without initializing.
C20_InitializeOnce ==
    /\ [](/\ initRuns <= 1
          /\ (SignedInFirings # {} /\ location = "app.html") => initRuns = 1
          /\ initRuns = 1 => isInitialized)
    /\ [][(authStateChanged(NoUser) /\ ~isInitialized) =>
             /\ location' = "index.html"
             /\ initRuns' = initRuns
             /\ ~isInitialized']_vars

\* C20 witness: the callback has fired with one user, then with another and
\* with none: the app was initialized once, for the first, and is still shown
C20_Witness ==
    /\ call.fn = "onAuthStateChanged"
    /\ Len(call.fired) >= 3
    /\ call.fired[1] = KnownEmail
    /\ call.fired[2] = OtherEmail
    /\ call.fired[3] = NoUser
    /\ initRuns = 1
    /\ appCurrentUser = KnownEmail
    /\ location = "app.html"

(***************************************************************************)
(* C25: the dashboard and the signed-in user                               *)
(***************************************************************************)

\* the user of the auth provider: the one the callback fired with last
ProviderUser ==
    IF call.fired = <<>> THEN NoUser ELSE call.fired[Len(call.fired)]

\* C25 as stated: whenever the dashboard is initialized and shown, a user is
\* signed in with the auth provider; a firing of the auth-state callback
\* with no user after the initialization redirects to the login page.
C25_AsStated ==
    (isInitialized /\ location = "app.html") => ProviderUser # NoUser

(***************************************************************************)
(* app.js, events.js, storage.js: the event list of the dashboard          *)
(***************************************************************************)

\* bounds: the events stored at the start, and the loadEvents and
\* deleteEventById calls suspended at once
MaxHomeEvents == 2
MaxHomeCalls == 2

otherThanHome ==
    <<pureVars, formVars, nextId, authVars, reportVars, uploadVars,
      sessionVars, mailDocs, docxVars, appVars, managerCalls>>

\* the documents of the collection as getAllEvents lists them (storage.js
\* 134-144): each with its id, the event created last first
eventosOf(docs) ==
    LET ns == {id[2] : id \in DOMAIN docs} IN
    [k \in 1..Cardinality(ns) |->
        LET n == CHOOSE m \in ns : Cardinality({l \in ns : l > m}) = k - 1 IN
        [id |-> DocId(n)] @@ docs[DocId(n)]]

\* what getAllEvents returns (storage.js 130-157): the documents, or the
\* localStorage list when the query fails
getAllEvents(queryOk) == IF queryOk THEN eventosOf(fsEvents) ELSE lsEvents

\* the ids of a list of events, in order
eventIds(events) == [k \in 1..Len(events) |-> events[k].id]

\* deleteEventFromLocalStorage (storage.js 315-325)
deleteEventFromLocalStorage(eventId) ==
    SelectSeq(lsEvents, LAMBDA stored : stored.id # eventId)

\* a call of homeCalls is over
homeReturn(c) == homeCalls' = RemoveAt(homeCalls, c)

\* loadEvents up to the await of getDocs (app.js 200-205; storage.js
\* 130-136); initializeApp and the eventCreated, eventUpdated and
\* eventDeleted listeners call it (app.js 102, 146-158)
loadEvents ==
    /\ Len(homeCalls) < MaxHomeCalls
    /\ homeCalls' = Append(homeCalls, [pc |-> "getAllEvents"])
    /\ io' = <<"firestore.getDocs">>
    /\ UNCHANGED <<toast, storeVars, appEvents, eventCards, emptyStateHidden,
                   otherThanHome>>

\* loadEvents after getAllEvents (storage.js 136-156; app.js 205-219), with
\* renderEvents (app.js 226-247) and showEmptyState (app.js 397-401)
loadEventsDone(c, queryOk) ==
    LET events == getAllEvents(queryOk) IN
    /\ homeCalls[c].pc = "getAllEvents"
    /\ homeReturn(c)
    /\ lsEvents' = IF queryOk THEN events ELSE lsEvents
    /\ io' = IF queryOk THEN <<"localStorage.setItem">> ELSE <<>>
    /\ IF Len(events) > 0
       THEN /\ appEvents' = events
            /\ eventCards' = eventIds(events)
            /\ emptyStateHidden' = TRUE
       ELSE /\ emptyStateHidden' = FALSE
            /\ UNCHANGED <<appEvents, eventCards>>
    /\ UNCHANGED <<toast, fsEvents, otherThanHome>>

\* deleteEventById, confirmed, up to the await of deleteDoc (events.js
\* 551-559; storage.js 222-227), from the card of a displayed event
deleteEventById(eventId) ==
    /\ \E k \in 1..Len(eventCards) : eventCards[k] = eventId
    /\ Len(homeCalls) < MaxHomeCalls
    /\ homeCalls' = Append(homeCalls, [pc |-> "deleteEvent", eventId |-> eventId])
    /\ io' = <<"firestore.deleteDoc">>
    /\ UNCHANGED <<toast, storeVars, appEvents, eventCards, emptyStateHidden,
                   otherThanHome>>

\* deleteEventById after deleteEvent (storage.js 227-240; events.js
\* 559-565): deleteEvent throws nothing; the eventDeleted listener runs
\* loadEvents up to its await inside dispatchEvent
deleteEventDone(c, ok) ==
    LET deleting == homeCalls[c] IN
    /\ deleting.pc = "deleteEvent"
    /\ fsEvents' = IF ok
                   THEN [id \in DOMAIN fsEvents \ {deleting.eventId} |-> fsEvents[id]]
                   ELSE fsEvents
    /\ lsEvents' = deleteEventFromLocalStorage(deleting.eventId)
    /\ toast' = Toast("Evento eliminado exitosamente", "success")
    /\ homeCalls' = [homeCalls EXCEPT ![c] = [pc |-> "getAllEvents"]]
    /\ io' = <<"localStorage.setItem", "firestore.getDocs">>
    /\ UNCHANGED <<appEvents, eventCards, emptyStateHidden, otherThanHome>>

(***************************************************************************)
(* SpecHome: the dashboard over the stored events                          *)
(***************************************************************************)

\* the collection holds events 1..n; localStorage has no cache yet
HomeInit ==
    /\ PureIdle
    /\ SharedIdle
    /\ FormIdle
    /\ AuthIdle
    /\ ReportIdle
    /\ UploadIdle
    /\ SessionsIdle
    /\ MailIdle
    /\ DocxIdle
    /\ AppIdle
    /\ ManagerIdle
    /\ \E n \in 0..MaxHomeEvents :
          fsEvents = [id \in {DocId(k) : k \in 1..n} |-> SavedEvent]
    /\ lsEvents = <<>>
    /\ appEvents = <<>>
    /\ eventCards = <<>>
    /\ emptyStateHidden \in BOOLEAN
    /\ homeCalls = <<>>

HomeNext ==
    \/ loadEvents
    \/ \E c \in 1..Len(homeCalls), queryOk \in BOOLEAN : loadEventsDone(c, queryOk)
    \/ \E eventId \in {DocId(k) : k \in 1..MaxHomeEvents} : deleteEventById(eventId)
    \/ \E c \in 1..Len(homeCalls), ok \in BOOLEAN : deleteEventDone(c, ok)

SpecHome == HomeInit /\ [][HomeNext]_vars

(***************************************************************************)
(* C24: the event list after loadEvents                                    *)
(***************************************************************************)

\* C24 as stated: when loadEvents completes, appState.events is the list
\* getAllEvents returned and the cards displayed are the cards of that list,
\* in its order; with an empty list no card is displayed and appState.events
\* is empty.
C24_AsStated ==
    [][\A c \in 1..Len(homeCalls), queryOk \in BOOLEAN :
          loadEventsDone(c, queryOk) =>
              /\ appEvents' = getAllEvents(queryOk)
              /\ eventCards' = eventIds(getAllEvents(queryOk))]_vars

=============================================================================
